---- MODULE Spec2Model ----
(***************************************************************************)
(* State-machine model of the CRS Rice Bowl portal: the relational tables  *)
(* (users, quizzes, school_classes, settings, announcements), the admin    *)
(* request handlers of app/routes/admin.py and the public aggregation      *)
(* endpoint of app/routes/api.py.  One action per request handler; a       *)
(* handler is one atomic step from the request to its response, the       *)
(* commit or the discarded session included.                               *)
(*                                                                         *)
(* Representation.  Money amounts are Python floats; they are modelled as  *)
(* records [nan, v] with v an integer number of dollars, so that the one   *)
(* non-ordered float value NaN is kept apart from the numbers.  Datetimes  *)
(* are integer instants, None is NULL.  JSON arrays of the public document *)
(* are modelled as sets (their order is not modelled).                     *)
(***************************************************************************)
EXTENDS Integers, Sequences, FiniteSets, TLC

\* ---------------------------------------------------------------- bounds
\* rows the school_classes table may hold
MaxClasses == 2
\* rows the announcements table may hold
MaxAnnouncements == 2
\* the clock runs over 0..MaxTime
MaxTime == 3

\* ------------------------------------------------------- program constants
\* range(1, 7): the weeks _ensure_quizzes_exist creates
NumWeeks == 6
\* len(new_password) < 6
MinPasswordLen == 6
\* NULL of a nullable DateTime column
None == -1
\* NULL of a nullable text column
NoneText == "<NULL>"
\* the anonymous current_user (no user id in the session)
NoUser == 0

Weeks == 1..NumWeeks
\* the request handlers that may run at the same time
Workers == {1, 2}
\* a worker that is handling no request
Idle == [op |-> "idle"]

\* ------------------------------------------------------------------ state
VARIABLES
    backend,         \* "sqlite" | "postgresql": SQLALCHEMY_DATABASE_URI
    users,           \* table users: rows [id, username, password_hash]
    session,         \* id of the logged-in user, or NoUser
    quizzes,         \* table quizzes
    school_classes,  \* table school_classes: rows [id, name, rice_bowl_amount]
    settings,        \* table settings: function key -> value over the stored keys
    announcements,   \* table announcements
    now,             \* datetime.utcnow()
    req,             \* the request handled last
    resp,            \* the response it got
    online_accepted, \* history: the online total update_totals accepted last
    pending          \* per worker: the request it is in the middle of, or Idle

db == <<users, quizzes, school_classes, settings, announcements>>
vars == <<backend, users, session, quizzes, school_classes, settings,
          announcements, now, req, resp, online_accepted, pending>>

\* ---------------------------------------------------------------- floats
F(n) == [nan |-> FALSE, v |-> n]
NaN == [nan |-> TRUE, v |-> 0]

\* a < b on floats: every comparison with NaN is false
FloatLt(a, b) == ~a.nan /\ ~b.nan /\ a.v < b.v
FloatGe(a, b) == ~a.nan /\ ~b.nan /\ a.v >= b.v
FloatAdd(a, b) == IF a.nan \/ b.nan THEN NaN ELSE F(a.v + b.v)

\* the integers whose numerals the requests may carry
Digits == -9..9

\* the decimal numerals of n that float() reads: "5", "5.0", "5.00"
Numerals(n) == {ToString(n), ToString(n) \o ".0", ToString(n) \o ".00"}

\* numeral -> number, for every numeral of Digits
NumeralTable ==
    [s \in UNION {Numerals(n) : n \in Digits} |-> CHOOSE n \in Digits : s \in Numerals(n)]

\* float(s): a numeral parses to its number, "nan" to NaN, anything else
\* (the empty string included) raises ValueError (ok = FALSE)
ParseFloat(s) ==
    IF s = "nan" THEN [ok |-> TRUE, val |-> NaN]
    ELSE IF s \in DOMAIN NumeralTable THEN [ok |-> TRUE, val |-> F(NumeralTable[s])]
    ELSE [ok |-> FALSE, val |-> F(0)]

\* str(f) of a float: 5.0 -> "5.0", nan -> "nan"
FloatStr(f) == IF f.nan THEN "nan" ELSE ToString(f.v) \o ".0"

\* numeral -> integer, for the integer numerals of Digits
IntTable == [s \in {ToString(n) : n \in Digits} |-> CHOOSE n \in Digits : s = ToString(n)]

\* int(s): a decimal integer numeral, else ValueError
ParseInt(s) ==
    IF s \in DOMAIN IntTable THEN [ok |-> TRUE, val |-> IntTable[s]]
    ELSE [ok |-> FALSE, val |-> 0]

\* --------------------------------------------------------------- strings
\* str.strip() on the strings the requests carry
Strip(s) ==
    CASE s = " " -> ""
      [] s = " 5A " -> "5A"
      [] s = " 5 " -> "5"
      [] s = " dark " -> "dark"
      [] s = "Ann\n Bob \n" -> "Ann\n Bob"
      [] OTHER -> s

\* f'Week {week}'
WeekName(week) == "Week " \o ToString(week)

\* the instants the datetime strings of the forms denote
DatetimeTable ==
    [s \in {"2026-03-01T10:00", "2026-03-02 10:00", "2026-03-03T10:00:00"} |->
        CASE s = "2026-03-01T10:00" -> 1
          [] s = "2026-03-02 10:00" -> 2
          [] OTHER -> 3]

\* _parse_datetime: one of the four formats matches, or ValueError
_parse_datetime(dt_string) ==
    IF dt_string \in DOMAIN DatetimeTable
    THEN [ok |-> TRUE, val |-> DatetimeTable[dt_string]]
    ELSE [ok |-> FALSE, val |-> None]

\* ------------------------------------------------------------- passwords
\* generate_password_hash: the stored hash determines the password
generate_password_hash(password) == <<"hash", password>>
check_password_hash(pwhash, password) == pwhash = generate_password_hash(password)

\* User.check_password
check_password(user, password) == check_password_hash(user.password_hash, password)

\* --------------------------------------------------------------- settings
\* mutant: the default of a missing key is dropped
SettingGet_NoDefault(table, key, default) ==
    IF key \in DOMAIN table THEN table[key] ELSE NoneText

\* Setting.get(key, default)
SettingGet(table, key, default) == IF key \in DOMAIN table THEN table[key] ELSE default

\* Setting.set(key, value): upsert and commit
SettingSet(table, key, value) ==
    [k \in DOMAIN table \cup {key} |-> IF k = key THEN value ELSE table[k]]

\* ------------------------------------------------------ derived predicates
\* mutant: the closing instant is excluded from the window
is_visible_CloseExcluded(quiz, t) ==
    IF quiz.schedule_mode = "manual" THEN quiz.manual_visible
    ELSE /\ quiz.schedule_mode = "scheduled"
         /\ quiz.opens_at # None /\ quiz.closes_at # None
         /\ quiz.opens_at <= t /\ t < quiz.closes_at

\* mutant: a manual quiz with a window is shown inside the window only
is_visible_ManualWindowed(quiz, t) ==
    IF quiz.schedule_mode = "manual"
    THEN /\ quiz.manual_visible
         /\ quiz.opens_at # None => quiz.opens_at <= t
         /\ quiz.closes_at # None => t <= quiz.closes_at
    ELSE /\ quiz.schedule_mode = "scheduled"
         /\ quiz.opens_at # None /\ quiz.closes_at # None
         /\ quiz.opens_at <= t /\ t <= quiz.closes_at

\* Quiz.is_visible at instant t
is_visible(quiz, t) ==
    IF quiz.schedule_mode = "manual" THEN quiz.manual_visible
    ELSE IF quiz.schedule_mode = "scheduled"
    THEN IF quiz.opens_at # None /\ quiz.closes_at # None
         THEN quiz.opens_at <= t /\ t <= quiz.closes_at
         ELSE FALSE
    ELSE FALSE

\* mutant: the end instant is excluded from the window
is_active_EndExcluded(ann, t) ==
    /\ ann.enabled
    /\ ann.start_at # None => ann.start_at <= t
    /\ ann.end_at # None => t < ann.end_at

\* Announcement.is_active at instant t
is_active(ann, t) ==
    IF ~ann.enabled THEN FALSE
    ELSE IF ann.start_at = None /\ ann.end_at = None THEN TRUE
    ELSE IF ann.start_at # None /\ t < ann.start_at THEN FALSE
    ELSE IF ann.end_at # None /\ t > ann.end_at THEN FALSE
    ELSE TRUE

\* Quiz.query.order_by(Quiz.week_number).all()
RECURSIVE OrderByWeek(_)
OrderByWeek(rows) ==
    IF rows = {} THEN <<>>
    ELSE LET first == CHOOSE q \in rows : \A r \in rows : q.week_number <= r.week_number
         IN <<first>> \o OrderByWeek(rows \ {first})

Reversed(seq) == [i \in 1..Len(seq) |-> seq[Len(seq) + 1 - i]]

MaxOf(S) == CHOOSE m \in S : \A x \in S : x <= m
MinOf2(a, b) == IF a <= b THEN a ELSE b

\* for quiz in qs: if quiz.is_visible(): return quiz.week_number  (0: loop ran out)
RECURSIVE FirstVisibleWeek(_, _)
FirstVisibleWeek(qs, t) ==
    IF qs = <<>> THEN 0
    ELSE IF is_visible(Head(qs), t) THEN Head(qs).week_number
    ELSE FirstVisibleWeek(Tail(qs), t)

\* for quiz in reversed(quizzes): the first scheduled one with now > closes_at
RECURSIVE FirstClosedWeek(_, _)
FirstClosedWeek(qs, t) ==
    IF qs = <<>> THEN 0
    ELSE IF Head(qs).schedule_mode = "scheduled" /\ Head(qs).closes_at # None
            /\ t > Head(qs).closes_at
    THEN Head(qs).week_number
    ELSE FirstClosedWeek(Tail(qs), t)

\* mutant: the closed quizzes are scanned from week 1 upwards
_determine_current_week_Forward(rows, t) ==
    LET qs == OrderByWeek(rows)
    IN IF qs = <<>> THEN 1
       ELSE IF FirstVisibleWeek(qs, t) # 0 THEN FirstVisibleWeek(qs, t)
       ELSE IF FirstClosedWeek(qs, t) # 0
       THEN MinOf2(FirstClosedWeek(qs, t) + 1, MaxOf({q.week_number : q \in rows}))
       ELSE 1

\* _determine_current_week
_determine_current_week(rows, t) ==
    LET qs == OrderByWeek(rows)
    IN IF qs = <<>> THEN 1
       ELSE IF FirstVisibleWeek(qs, t) # 0 THEN FirstVisibleWeek(qs, t)
       ELSE IF FirstClosedWeek(Reversed(qs), t) # 0
       THEN MinOf2(FirstClosedWeek(Reversed(qs), t) + 1,
                   MaxOf({q.week_number : q \in rows}))
       ELSE 1

\* sum(c.rice_bowl_amount for c in classes)
RECURSIVE SumAmounts(_)
SumAmounts(rows) ==
    IF rows = {} THEN F(0)
    ELSE LET c == CHOOSE c \in rows : TRUE
         IN FloatAdd(c.rice_bowl_amount, SumAmounts(rows \ {c}))

\* ------------------------------------------------------------- responses
\* redirect(url_for(to)) after flash(message, category)
Redirect(to, category, message) ==
    [status |-> 302, to |-> to, category |-> category, flash |-> message, body |-> <<>>]
\* render_template(page) after flash(message, category)
Page(page, category, message) ==
    [status |-> 200, to |-> page, category |-> category, flash |-> message, body |-> <<>>]
\* jsonify(body), status
Json(status, body) ==
    [status |-> status, to |-> "", category |-> "none", flash |-> "", body |-> body]

\* @login_required with no user in the session: login_manager.login_view
Unauthorized ==
    Redirect("login", "message", "Please log in to access the admin panel.")

\* an admin request made with no user logged in changes nothing. Every
\* handler that names its request r is one conjunction, so that r is built
\* anew at each step it takes.
LoginRequired(r) ==
    /\ session = NoUser
    /\ req' = r
    /\ resp' = Unauthorized
    /\ UNCHANGED <<backend, db, session, now, online_accepted, pending>>

\* ------------------------------------------------------------------ commit
\* mutant: the table without the UNIQUE constraint on name
CommitClassesOk_NoUnique(rows) ==
    \A c \in rows : c.rice_bowl_amount.nan => backend # "sqlite"

\* school_classes.rice_bowl_amount is Float NOT NULL and name is UNIQUE:
\* SQLite binds NaN as NULL, which the NOT NULL constraint refuses;
\* PostgreSQL stores NaN in a double precision column
CommitClassesOk(rows) ==
    /\ \A c \in rows : c.rice_bowl_amount.nan => backend # "sqlite"
    /\ \A c, d \in rows : c.name = d.name => c.id = d.id

ClassIds == 1..MaxClasses

\* SchoolClass.query.get(class_id): the rows with that primary key
ClassById(class_id) == {c \in school_classes : c.id = class_id}

\* mutant: the duplicate lookup finds nothing
ClassByName_NoLookup(name) == {}

\* SchoolClass.query.filter_by(name=name).first(): the rows with that name
ClassByName(name) == {c \in school_classes : c.name = name}

\* ---------------------------------------------------------- authentication
login(username_raw, password) ==
    /\ req' = [op |-> "login", username |-> username_raw, password |-> password]
    /\ IF session # NoUser
       THEN resp' = Redirect("dashboard", "none", "") /\ UNCHANGED session
       ELSE LET username == Strip(username_raw)
                found == {u \in users : u.username = username /\ check_password(u, password)}
            IN IF username = "" \/ password = ""
               THEN /\ resp' = Page("login", "error", "Please enter both username and password.")
                    /\ UNCHANGED session
               ELSE IF found # {}
               THEN /\ session' = (CHOOSE u \in found : TRUE).id
                    /\ resp' = Redirect("dashboard", "success", "Logged in successfully.")
               ELSE /\ resp' = Page("login", "error", "Invalid username or password.")
                    /\ UNCHANGED session
    /\ UNCHANGED <<backend, db, now, online_accepted, pending>>

logout ==
    \/ LoginRequired([op |-> "logout"])
    \/ /\ session # NoUser
       /\ req' = [op |-> "logout"]
       /\ session' = NoUser
       /\ resp' = Redirect("login", "success", "You have been logged out.")
       /\ UNCHANGED <<backend, db, now, online_accepted, pending>>

\* load_user(user_id): the row of the logged-in user
current_user == CHOOSE u \in users : u.id = session

\* mutant: the new hash is never stored
SetPassword_NotStored(table, user_id, password) == table

\* set_password + commit on the logged-in user's row
SetPassword(table, user_id, password) ==
    {IF u.id = user_id
     THEN [u EXCEPT !.password_hash = generate_password_hash(password)]
     ELSE u : u \in table}

update_account(current_password, new_password, confirm_password) ==
  /\ LET r == [op |-> "update_account", current_password |-> current_password,
              new_password |-> new_password, confirm_password |-> confirm_password]
    IN \/ LoginRequired(r)
       \/ /\ session # NoUser
          /\ req' = r
          /\ IF current_password = "" \/ new_password = "" \/ confirm_password = ""
             THEN /\ resp' = Redirect("account", "error", "All password fields are required.")
                  /\ UNCHANGED users
             ELSE IF ~check_password(current_user, current_password)
             THEN /\ resp' = Redirect("account", "error", "Current password is incorrect.")
                  /\ UNCHANGED users
             ELSE IF new_password # confirm_password
             THEN /\ resp' = Redirect("account", "error", "New passwords do not match.")
                  /\ UNCHANGED users
             ELSE IF Len(new_password) < MinPasswordLen
             THEN /\ resp' = Redirect("account", "error",
                                      "New password must be at least 6 characters long.")
                  /\ UNCHANGED users
             ELSE /\ users' = SetPassword(users, session, new_password)
                  /\ resp' = Redirect("account", "success", "Password changed successfully.")
          /\ UNCHANGED <<backend, session, quizzes, school_classes, settings,
                         announcements, now, online_accepted, pending>>

\* ------------------------------------------------------------------ totals
\* float(Setting.get('online_total', '0') or '0') of the admin views
AdminOnlineTotal ==
    LET stored == SettingGet(settings, "online_total", "0")
    IN ParseFloat(IF stored = "" THEN "0" ELSE stored)

\* GET /admin/totals
totals ==
    \/ LoginRequired([op |-> "totals"])
    \/ /\ session # NoUser
       /\ req' = [op |-> "totals"]
       /\ resp' = IF AdminOnlineTotal.ok
                  THEN [Page("totals", "none", "") EXCEPT !.body =
                          [crs_link |-> SettingGet(settings, "crs_donation_link", ""),
                           online_total |-> AdminOnlineTotal.val,
                           classes |-> school_classes,
                           rice_bowl_total |-> SumAmounts(school_classes),
                           grand_total |-> FloatAdd(AdminOnlineTotal.val,
                                                    SumAmounts(school_classes))]]
                  ELSE Json(500, <<>>)
       /\ UNCHANGED <<backend, db, session, now, online_accepted, pending>>

\* POST /admin/totals
update_totals(crs_raw, online_raw) ==
  /\ LET r == [op |-> "update_totals", crs_donation_link |-> crs_raw,
              online_total |-> online_raw]
        crs_link == Strip(crs_raw)
        online_total_str == Strip(online_raw)
        parsed == IF online_total_str # "" THEN ParseFloat(online_total_str)
                  ELSE [ok |-> TRUE, val |-> F(0)]
    IN \/ LoginRequired(r)
       \/ /\ session # NoUser
          /\ req' = r
          /\ IF ~parsed.ok \/ FloatLt(parsed.val, F(0))
             THEN /\ resp' = Redirect("totals", "error",
                                      "Please enter a valid number for online total.")
                  /\ UNCHANGED <<settings, online_accepted>>
             ELSE /\ settings' = SettingSet(SettingSet(settings, "crs_donation_link", crs_link),
                                            "online_total", FloatStr(parsed.val))
                  /\ online_accepted' = parsed.val
                  /\ resp' = Redirect("totals", "success", "Totals updated successfully.")
          /\ UNCHANGED <<backend, users, session, quizzes, school_classes,
                         announcements, now, pending>>

\* the table with row class_id replaced by row
ReplaceClass(class_id, row) == {IF c.id = class_id THEN row ELSE c : c \in school_classes}

\* POST /admin/totals/class/<class_id>
update_class_total(class_id, amount_raw) ==
  /\ LET r == [op |-> "update_class_total", class_id |-> class_id,
              rice_bowl_amount |-> amount_raw]
        amount_str == Strip(amount_raw)
        parsed == IF amount_str # "" THEN ParseFloat(amount_str)
                  ELSE [ok |-> TRUE, val |-> F(0)]
    IN \/ LoginRequired(r)
       \/ /\ session # NoUser
          /\ req' = r
          /\ IF ClassById(class_id) = {}
             THEN /\ resp' = Redirect("totals", "error", "Class not found.")
                  /\ UNCHANGED school_classes
             ELSE LET school_class == CHOOSE c \in ClassById(class_id) : TRUE
                      updated == ReplaceClass(class_id,
                                     [school_class EXCEPT !.rice_bowl_amount = parsed.val])
                  IN IF ~parsed.ok
                     THEN /\ resp' = Redirect("totals", "error", "Please enter a valid number.")
                          /\ UNCHANGED school_classes
                     ELSE IF FloatLt(parsed.val, F(0))
                     THEN /\ resp' = Redirect("totals", "error", "Amount cannot be negative.")
                          /\ UNCHANGED school_classes
                     ELSE IF CommitClassesOk(updated)
                     THEN /\ school_classes' = updated
                          /\ resp' = Redirect("totals", "success", "Updated class amount.")
                     ELSE /\ resp' = Redirect("totals", "error", "Error updating class total")
                          /\ UNCHANGED school_classes
          /\ UNCHANGED <<backend, users, session, quizzes, settings, announcements,
                         now, online_accepted, pending>>

\* ----------------------------------------------------------------- classes
\* POST /admin/classes
add_class(name_raw, amount_raw) ==
  /\ LET r == [op |-> "add_class", name |-> name_raw, rice_bowl_amount |-> amount_raw]
        name == Strip(name_raw)
        initial_amount_str == Strip(amount_raw)
        parsed == IF initial_amount_str # "" THEN ParseFloat(initial_amount_str)
                  ELSE [ok |-> TRUE, val |-> F(0)]
    IN \/ LoginRequired(r)
       \/ /\ session # NoUser
          /\ req' = r
          /\ IF name = ""
             THEN /\ resp' = Redirect("classes", "error", "Class name is required.")
                  /\ UNCHANGED school_classes
             ELSE IF ClassByName(name) # {}
             THEN /\ resp' = Redirect("classes", "error", "A class with that name already exists.")
                  /\ UNCHANGED school_classes
             ELSE IF ~parsed.ok
             THEN /\ resp' = Redirect("classes", "error",
                                      "Please enter a valid number for the initial amount.")
                  /\ UNCHANGED school_classes
             ELSE IF FloatLt(parsed.val, F(0))
             THEN /\ resp' = Redirect("classes", "error", "Initial amount cannot be negative.")
                  /\ UNCHANGED school_classes
             ELSE /\ Cardinality(school_classes) < MaxClasses
                  /\ \E id \in ClassIds \ {c.id : c \in school_classes} :
                        LET added == school_classes \cup
                                {[id |-> id, name |-> name, rice_bowl_amount |-> parsed.val]}
                        IN IF CommitClassesOk(added)
                           THEN /\ school_classes' = added
                                /\ resp' = Redirect("classes", "success", "Class added successfully.")
                           ELSE /\ resp' = Redirect("classes", "error", "Error adding class")
                                /\ UNCHANGED school_classes
          /\ UNCHANGED <<backend, users, session, quizzes, settings, announcements,
                         now, online_accepted, pending>>

\* POST /admin/classes/<class_id>
update_class(class_id, name_raw, amount_raw) ==
  /\ LET r == [op |-> "update_class", class_id |-> class_id, name |-> name_raw,
              rice_bowl_amount |-> amount_raw]
        new_name == Strip(name_raw)
        amount_str == Strip(amount_raw)
        parsed == ParseFloat(amount_str)
    IN \/ LoginRequired(r)
       \/ /\ session # NoUser
          /\ req' = r
          /\ IF ClassById(class_id) = {}
             THEN /\ resp' = Redirect("classes", "error", "Class not found.")
                  /\ UNCHANGED school_classes
             ELSE LET school_class == CHOOSE c \in ClassById(class_id) : TRUE
                      renamed == IF new_name # "" /\ new_name # school_class.name
                                 THEN [school_class EXCEPT !.name = new_name]
                                 ELSE school_class
                      changed == IF amount_str # ""
                                 THEN [renamed EXCEPT !.rice_bowl_amount = parsed.val]
                                 ELSE renamed
                      updated == ReplaceClass(class_id, changed)
                  IN IF /\ new_name # "" /\ new_name # school_class.name
                        /\ \E existing \in ClassByName(new_name) : existing.id # class_id
                     THEN /\ resp' = Redirect("classes", "error",
                                              "A class with that name already exists.")
                          /\ UNCHANGED school_classes
                     ELSE IF amount_str # "" /\ ~parsed.ok
                     THEN /\ resp' = Redirect("classes", "error",
                                              "Please enter a valid number for the amount.")
                          /\ UNCHANGED school_classes
                     ELSE IF amount_str # "" /\ FloatLt(parsed.val, F(0))
                     THEN /\ resp' = Redirect("classes", "error", "Amount cannot be negative.")
                          /\ UNCHANGED school_classes
                     ELSE IF CommitClassesOk(updated)
                     THEN /\ school_classes' = updated
                          /\ resp' = Redirect("classes", "success", "Class updated successfully.")
                     ELSE /\ resp' = Redirect("classes", "error", "Error updating class")
                          /\ UNCHANGED school_classes
          /\ UNCHANGED <<backend, users, session, quizzes, settings, announcements,
                         now, online_accepted, pending>>

\* POST /admin/classes/<class_id>/edit  (JSON)
edit_class(class_id, name_raw) ==
  /\ LET r == [op |-> "edit_class", class_id |-> class_id, name |-> name_raw]
        new_name == Strip(name_raw)
    IN \/ LoginRequired(r)
       \/ /\ session # NoUser
          /\ req' = r
          /\ IF ClassById(class_id) = {}
             THEN /\ resp' = Json(404, [success |-> FALSE, error |-> "Class not found"])
                  /\ UNCHANGED school_classes
             ELSE LET school_class == CHOOSE c \in ClassById(class_id) : TRUE
                      updated == ReplaceClass(class_id, [school_class EXCEPT !.name = new_name])
                  IN IF new_name = ""
                     THEN /\ resp' = Json(400, [success |-> FALSE,
                                                error |-> "Class name is required"])
                          /\ UNCHANGED school_classes
                     ELSE IF /\ new_name # school_class.name
                             /\ \E existing \in ClassByName(new_name) : existing.id # class_id
                     THEN /\ resp' = Json(400, [success |-> FALSE,
                                                error |-> "A class with that name already exists"])
                          /\ UNCHANGED school_classes
                     ELSE IF CommitClassesOk(updated)
                     THEN /\ school_classes' = updated
                          /\ resp' = Json(200, [success |-> TRUE, name |-> new_name])
                     ELSE /\ resp' = Json(500, [success |-> FALSE, error |-> "IntegrityError"])
                          /\ UNCHANGED school_classes
          /\ UNCHANGED <<backend, users, session, quizzes, settings, announcements,
                         now, online_accepted, pending>>

\* mutant: the handler without @login_required
delete_class_NoLoginRequired(class_id) ==
    /\ req' = [op |-> "delete_class", class_id |-> class_id]
    /\ IF ClassById(class_id) = {}
       THEN /\ resp' = Redirect("classes", "error", "Class not found.")
            /\ UNCHANGED school_classes
       ELSE /\ school_classes' = school_classes \ ClassById(class_id)
            /\ resp' = Redirect("classes", "success", "Class deleted successfully.")
    /\ UNCHANGED <<backend, users, session, quizzes, settings, announcements,
                   now, online_accepted, pending>>

\* POST /admin/classes/<class_id>/delete
delete_class(class_id) ==
  /\ LET r == [op |-> "delete_class", class_id |-> class_id]
    IN \/ LoginRequired(r)
       \/ /\ session # NoUser
          /\ req' = r
          /\ IF ClassById(class_id) = {}
             THEN /\ resp' = Redirect("classes", "error", "Class not found.")
                  /\ UNCHANGED school_classes
             ELSE /\ school_classes' = school_classes \ ClassById(class_id)
                  /\ resp' = Redirect("classes", "success", "Class deleted successfully.")
          /\ UNCHANGED <<backend, users, session, quizzes, settings, announcements,
                         now, online_accepted, pending>>

\* ----------------------------------------------------------------- quizzes
\* the primary key the database gives the next inserted quiz
NextQuizId(rows) == IF rows = {} THEN 1 ELSE MaxOf({q.id : q \in rows}) + 1

\* Quiz(week_number=week, country_name=f'Week {week}', schedule_mode='manual',
\*      manual_visible=False) with the column defaults
NewQuiz(id, week) ==
    [id |-> id, week_number |-> week, country_name |-> WeekName(week),
     description |-> NoneText, forms_link |-> NoneText,
     opens_at |-> None, closes_at |-> None,
     schedule_mode |-> "manual", manual_visible |-> FALSE,
     participant_count |-> 0, participants_text |-> NoneText,
     winner_1 |-> NoneText, winner_2 |-> NoneText, winner_3 |-> NoneText]

\* for week in range(first, last + 1): add the quiz of a week that has none
RECURSIVE EnsureLoop(_, _, _)
EnsureLoop(rows, week, last) ==
    IF week > last THEN rows
    ELSE IF \E q \in rows : q.week_number = week
    THEN EnsureLoop(rows, week + 1, last)
    ELSE EnsureLoop(rows \cup {NewQuiz(NextQuizId(rows), week)}, week + 1, last)

\* mutant: range(1, 6) leaves the last week out
_ensure_quizzes_exist_ShortRange(rows) == EnsureLoop(rows, 1, NumWeeks - 1)

\* _ensure_quizzes_exist
_ensure_quizzes_exist(rows) == EnsureLoop(rows, 1, NumWeeks)

\* GET /admin/quizzes
quizzes_view ==
    \/ LoginRequired([op |-> "quizzes"])
    \/ /\ session # NoUser
       /\ req' = [op |-> "quizzes"]
       /\ quizzes' = _ensure_quizzes_exist(quizzes)
       /\ resp' = [Page("quizzes", "none", "") EXCEPT !.body = quizzes']
       /\ UNCHANGED <<backend, users, session, school_classes, settings, announcements,
                      now, online_accepted, pending>>

\* x.strip() or None
StripOrNone(text) == IF Strip(text) = "" THEN NoneText ELSE Strip(text)

\* _parse_datetime(s) if s else None
ParseOptionalDatetime(text) ==
    IF Strip(text) = "" THEN [ok |-> TRUE, val |-> None] ELSE _parse_datetime(Strip(text))

\* the quiz object after every assignment of update_quiz
QuizFromForm(quiz, week, form) ==
    [quiz EXCEPT
        !.country_name = IF Strip(form.country_name) = "" THEN WeekName(week)
                         ELSE Strip(form.country_name),
        !.description = StripOrNone(form.description),
        !.forms_link = StripOrNone(form.forms_link),
        !.schedule_mode = form.schedule_mode,
        !.manual_visible = (form.manual_visible = "on"),
        !.opens_at = ParseOptionalDatetime(form.opens_at).val,
        !.closes_at = ParseOptionalDatetime(form.closes_at).val,
        !.participant_count = IF Strip(form.participant_count) = "" THEN 0
                              ELSE ParseInt(Strip(form.participant_count)).val,
        !.participants_text = StripOrNone(form.participants_text),
        !.winner_1 = StripOrNone(form.winner_1),
        !.winner_2 = StripOrNone(form.winner_2),
        !.winner_3 = StripOrNone(form.winner_3)]

\* mutant: the fields assigned before the window test survive its refusal
update_quiz_PartialWrite(week, form) ==
  /\ LET r == [op |-> "update_quiz", week |-> week, form |-> form]
        found == {q \in quizzes : q.week_number = week}
        opens == ParseOptionalDatetime(form.opens_at)
        closes == ParseOptionalDatetime(form.closes_at)
    IN \/ LoginRequired(r)
       \/ /\ session # NoUser
          /\ req' = r
          /\ IF found = {}
             THEN /\ resp' = Redirect("quizzes", "error", "Quiz not found.")
                  /\ UNCHANGED quizzes
             ELSE LET quiz == CHOOSE q \in found : TRUE
                  IN IF ~opens.ok \/ ~closes.ok
                     THEN /\ resp' = Redirect("quizzes", "error", "Invalid data")
                          /\ UNCHANGED quizzes
                     ELSE IF opens.val # None /\ closes.val # None /\ opens.val >= closes.val
                     THEN /\ resp' = Redirect("quizzes", "error",
                                              "Opening date must be before closing date.")
                          /\ quizzes' = (quizzes \ {quiz}) \cup
                                {[QuizFromForm(quiz, week, form) EXCEPT
                                     !.participant_count = quiz.participant_count,
                                     !.participants_text = quiz.participants_text,
                                     !.winner_1 = quiz.winner_1,
                                     !.winner_2 = quiz.winner_2,
                                     !.winner_3 = quiz.winner_3]}
                     ELSE IF /\ Strip(form.participant_count) # ""
                             /\ ~ParseInt(Strip(form.participant_count)).ok
                     THEN /\ resp' = Redirect("quizzes", "error", "Invalid data")
                          /\ UNCHANGED quizzes
                     ELSE /\ quizzes' = (quizzes \ {quiz}) \cup {QuizFromForm(quiz, week, form)}
                          /\ resp' = Redirect("quizzes", "success", "Quiz updated successfully.")
          /\ UNCHANGED <<backend, users, session, school_classes, settings, announcements,
                         now, online_accepted, pending>>

\* POST /admin/quizzes/<week>
update_quiz(week, form) ==
  /\ LET r == [op |-> "update_quiz", week |-> week, form |-> form]
        found == {q \in quizzes : q.week_number = week}
        opens == ParseOptionalDatetime(form.opens_at)
        closes == ParseOptionalDatetime(form.closes_at)
    IN \/ LoginRequired(r)
       \/ /\ session # NoUser
          /\ req' = r
          /\ IF found = {}
             THEN /\ resp' = Redirect("quizzes", "error", "Quiz not found.")
                  /\ UNCHANGED quizzes
             ELSE LET quiz == CHOOSE q \in found : TRUE
                  IN IF ~opens.ok \/ ~closes.ok
                     THEN /\ resp' = Redirect("quizzes", "error", "Invalid data")
                          /\ UNCHANGED quizzes
                     ELSE IF opens.val # None /\ closes.val # None /\ opens.val >= closes.val
                     THEN /\ resp' = Redirect("quizzes", "error",
                                              "Opening date must be before closing date.")
                          /\ UNCHANGED quizzes
                     ELSE IF /\ Strip(form.participant_count) # ""
                             /\ ~ParseInt(Strip(form.participant_count)).ok
                     THEN /\ resp' = Redirect("quizzes", "error", "Invalid data")
                          /\ UNCHANGED quizzes
                     ELSE /\ quizzes' = (quizzes \ {quiz}) \cup {QuizFromForm(quiz, week, form)}
                          /\ resp' = Redirect("quizzes", "success", "Quiz updated successfully.")
          /\ UNCHANGED <<backend, users, session, school_classes, settings, announcements,
                         now, online_accepted, pending>>

\* the clock of datetime.utcnow() advances
Tick ==
    /\ now < MaxTime
    /\ now' = now + 1
    /\ UNCHANGED <<backend, db, session, req, resp, online_accepted, pending>>

\* ----------------------------------------------------------- announcements
AnnouncementIds == 1..MaxAnnouncements

\* Announcement.query.get(id): the rows with that primary key
AnnouncementById(id) == {a \in announcements : a.id = id}

\* POST /admin/announcements
add_announcement(form) ==
  /\ LET r == [op |-> "add_announcement", form |-> form]
        text == Strip(form.text)
        start_at == ParseOptionalDatetime(form.start_at)
        end_at == ParseOptionalDatetime(form.end_at)
    IN \/ LoginRequired(r)
       \/ /\ session # NoUser
          /\ req' = r
          /\ IF text = ""
             THEN /\ resp' = Redirect("announcements", "error", "Announcement text is required.")
                  /\ UNCHANGED announcements
             ELSE IF ~start_at.ok \/ ~end_at.ok
             THEN /\ resp' = Redirect("announcements", "error", "Invalid date format")
                  /\ UNCHANGED announcements
             ELSE IF start_at.val # None /\ end_at.val # None /\ start_at.val >= end_at.val
             THEN /\ resp' = Redirect("announcements", "error",
                                      "Start date must be before end date.")
                  /\ UNCHANGED announcements
             ELSE /\ Cardinality(announcements) < MaxAnnouncements
                  /\ \E id \in AnnouncementIds \ {a.id : a \in announcements} :
                        announcements' = announcements \cup
                            {[id |-> id, text |-> text, start_at |-> start_at.val,
                              end_at |-> end_at.val, enabled |-> (form.enabled = "on")]}
                  /\ resp' = Redirect("announcements", "success",
                                      "Announcement added successfully.")
          /\ UNCHANGED <<backend, users, session, quizzes, school_classes, settings,
                         now, online_accepted, pending>>

\* mutant: the handler without the test of the window
update_announcement_NoRangeCheck(id, form) ==
  /\ LET r == [op |-> "update_announcement", id |-> id, form |-> form]
        text == Strip(form.text)
        start_at == ParseOptionalDatetime(form.start_at)
        end_at == ParseOptionalDatetime(form.end_at)
    IN \/ LoginRequired(r)
       \/ /\ session # NoUser
          /\ req' = r
          /\ IF AnnouncementById(id) = {}
             THEN /\ resp' = Redirect("announcements", "error", "Announcement not found.")
                  /\ UNCHANGED announcements
             ELSE IF text = ""
             THEN /\ resp' = Redirect("announcements", "error", "Announcement text is required.")
                  /\ UNCHANGED announcements
             ELSE IF ~start_at.ok \/ ~end_at.ok
             THEN /\ resp' = Redirect("announcements", "error", "Invalid date format")
                  /\ UNCHANGED announcements
             ELSE /\ announcements' =
                        {IF a.id = id
                         THEN [a EXCEPT !.text = text, !.start_at = start_at.val,
                                        !.end_at = end_at.val,
                                        !.enabled = (form.enabled = "on")]
                         ELSE a : a \in announcements}
                  /\ resp' = Redirect("announcements", "success",
                                      "Announcement updated successfully.")
          /\ UNCHANGED <<backend, users, session, quizzes, school_classes, settings,
                         now, online_accepted, pending>>

\* POST /admin/announcements/<id>
update_announcement(id, form) ==
  /\ LET r == [op |-> "update_announcement", id |-> id, form |-> form]
        text == Strip(form.text)
        start_at == ParseOptionalDatetime(form.start_at)
        end_at == ParseOptionalDatetime(form.end_at)
    IN \/ LoginRequired(r)
       \/ /\ session # NoUser
          /\ req' = r
          /\ IF AnnouncementById(id) = {}
             THEN /\ resp' = Redirect("announcements", "error", "Announcement not found.")
                  /\ UNCHANGED announcements
             ELSE IF text = ""
             THEN /\ resp' = Redirect("announcements", "error", "Announcement text is required.")
                  /\ UNCHANGED announcements
             ELSE IF ~start_at.ok \/ ~end_at.ok
             THEN /\ resp' = Redirect("announcements", "error", "Invalid date format")
                  /\ UNCHANGED announcements
             ELSE IF start_at.val # None /\ end_at.val # None /\ start_at.val >= end_at.val
             THEN /\ resp' = Redirect("announcements", "error",
                                      "Start date must be before end date.")
                  /\ UNCHANGED announcements
             ELSE /\ announcements' =
                        {IF a.id = id
                         THEN [a EXCEPT !.text = text, !.start_at = start_at.val,
                                        !.end_at = end_at.val,
                                        !.enabled = (form.enabled = "on")]
                         ELSE a : a \in announcements}
                  /\ resp' = Redirect("announcements", "success",
                                      "Announcement updated successfully.")
          /\ UNCHANGED <<backend, users, session, quizzes, school_classes, settings,
                         now, online_accepted, pending>>

\* POST /admin/announcements/<id>/delete
delete_announcement(id) ==
  /\ LET r == [op |-> "delete_announcement", id |-> id]
    IN \/ LoginRequired(r)
       \/ /\ session # NoUser
          /\ req' = r
          /\ IF AnnouncementById(id) = {}
             THEN /\ resp' = Redirect("announcements", "error", "Announcement not found.")
                  /\ UNCHANGED announcements
             ELSE /\ announcements' = announcements \ AnnouncementById(id)
                  /\ resp' = Redirect("announcements", "success",
                                      "Announcement deleted successfully.")
          /\ UNCHANGED <<backend, users, session, quizzes, school_classes, settings,
                         now, online_accepted, pending>>

\* ------------------------------------------------------------------ design
\* POST /admin/design
update_design(theme_raw, logo_raw, imagery) ==
  /\ LET r == [op |-> "update_design", theme |-> theme_raw, school_logo_url |-> logo_raw,
              enable_crs_imagery |-> imagery]
    IN \/ LoginRequired(r)
       \/ /\ session # NoUser
          /\ req' = r
          /\ settings' =
                SettingSet(SettingSet(SettingSet(settings, "theme", Strip(theme_raw)),
                                      "school_logo_url", Strip(logo_raw)),
                           "enable_crs_imagery", IF imagery = "on" THEN "true" ELSE "false")
          /\ resp' = Redirect("design", "success", "Design settings updated successfully.")
          /\ UNCHANGED <<backend, users, session, quizzes, school_classes, announcements,
                         now, online_accepted, pending>>

\* ------------------------------------------------------------------ views
\* the last visible quiz of the loop of dashboard, None without one
CurrentQuizWeek ==
    LET visible == {q.week_number : q \in {x \in quizzes : is_visible(x, now)}}
    IN IF visible = {} THEN None ELSE MaxOf(visible)

\* the first quiz of the loop of dashboard that is not visible and opens later
NextQuizWeek ==
    LET later == {q.week_number : q \in {x \in quizzes : /\ ~is_visible(x, now)
                                                         /\ x.opens_at # None
                                                         /\ x.opens_at > now}}
    IN IF later = {} THEN None ELSE CHOOSE w \in later : \A v \in later : w <= v

\* GET /admin/ and /admin/dashboard
dashboard ==
    \/ LoginRequired([op |-> "dashboard"])
    \/ /\ session # NoUser
       /\ req' = [op |-> "dashboard"]
       /\ resp' = IF AdminOnlineTotal.ok
                  THEN [Page("dashboard", "none", "") EXCEPT !.body =
                          [current_quiz |-> CurrentQuizWeek,
                           next_quiz |-> NextQuizWeek,
                           online_total |-> AdminOnlineTotal.val,
                           rice_bowl_total |-> SumAmounts(school_classes),
                           grand_total |-> FloatAdd(AdminOnlineTotal.val,
                                                    SumAmounts(school_classes)),
                           class_count |-> Cardinality(school_classes),
                           active_announcements |->
                               Cardinality({a \in announcements : a.enabled})]]
                  ELSE Json(500, <<>>)
       /\ UNCHANGED <<backend, db, session, now, online_accepted, pending>>

\* GET /admin/classes
classes ==
    \/ LoginRequired([op |-> "classes"])
    \/ /\ session # NoUser
       /\ req' = [op |-> "classes"]
       /\ resp' = [Page("classes", "none", "") EXCEPT !.body = school_classes]
       /\ UNCHANGED <<backend, db, session, now, online_accepted, pending>>

\* GET /admin/announcements
announcements_view ==
    \/ LoginRequired([op |-> "announcements"])
    \/ /\ session # NoUser
       /\ req' = [op |-> "announcements"]
       /\ resp' = [Page("announcements", "none", "") EXCEPT !.body = announcements]
       /\ UNCHANGED <<backend, db, session, now, online_accepted, pending>>

\* GET /admin/design
design ==
    \/ LoginRequired([op |-> "design"])
    \/ /\ session # NoUser
       /\ req' = [op |-> "design"]
       /\ resp' = [Page("design", "none", "") EXCEPT !.body =
                     [theme |-> SettingGet(settings, "theme", "default"),
                      school_logo_url |-> SettingGet(settings, "school_logo_url", ""),
                      enable_crs_imagery |->
                          (SettingGet(settings, "enable_crs_imagery", "true") = "true")]]
       /\ UNCHANGED <<backend, db, session, now, online_accepted, pending>>

\* GET /admin/account
account ==
    \/ LoginRequired([op |-> "account"])
    \/ /\ session # NoUser
       /\ req' = [op |-> "account"]
       /\ resp' = Page("account", "none", "")
       /\ UNCHANGED <<backend, db, session, now, online_accepted, pending>>

\* ------------------------------------------ requests handled step by step
\* Setting.set commits on its own (models.py:142): a handler that calls it
\* several times is a sequence of commits, between which other requests run.
\* a request in progress: its form, its Setting.set calls, how many of them
\* are committed, and the settings table it started on
SettingsRequest(r, page, failure, writes, accepted) ==
    [op |-> r.op, r |-> r, page |-> page, failure |-> failure, writes |-> writes,
     done |-> 0, before |-> settings, accepted |-> accepted]

\* POST /admin/design up to its first Setting.set
update_design_begin(w, theme_raw, logo_raw, imagery) ==
  /\ LET r == [op |-> "update_design", theme |-> theme_raw, school_logo_url |-> logo_raw,
              enable_crs_imagery |-> imagery]
    IN /\ pending[w] = Idle
       /\ \/ LoginRequired(r)
          \/ /\ session # NoUser
             /\ pending' = [pending EXCEPT ![w] =
                   SettingsRequest(r, "design", "Error updating design settings",
                      << <<"theme", Strip(theme_raw)>>,
                         <<"school_logo_url", Strip(logo_raw)>>,
                         <<"enable_crs_imagery", IF imagery = "on" THEN "true" ELSE "false">> >>,
                      online_accepted)]
             /\ UNCHANGED <<backend, db, session, now, req, resp, online_accepted>>

\* POST /admin/totals up to its first Setting.set
update_totals_begin(w, crs_raw, online_raw) ==
  /\ LET r == [op |-> "update_totals", crs_donation_link |-> crs_raw,
              online_total |-> online_raw]
        online_total_str == Strip(online_raw)
        parsed == IF online_total_str # "" THEN ParseFloat(online_total_str)
                  ELSE [ok |-> TRUE, val |-> F(0)]
    IN /\ pending[w] = Idle
       /\ \/ LoginRequired(r)
          \/ /\ session # NoUser
             /\ IF ~parsed.ok \/ FloatLt(parsed.val, F(0))
                THEN /\ req' = r
                     /\ resp' = Redirect("totals", "error",
                                         "Please enter a valid number for online total.")
                     /\ UNCHANGED pending
                ELSE /\ pending' = [pending EXCEPT ![w] =
                           SettingsRequest(r, "totals", "Error updating totals",
                              << <<"crs_donation_link", Strip(crs_raw)>>,
                                 <<"online_total", FloatStr(parsed.val)>> >>,
                              parsed.val)]
                     /\ UNCHANGED <<req, resp>>
             /\ UNCHANGED <<backend, db, session, now, online_accepted>>

\* the worker is between two statements of update_design or update_totals
InSettingsRequest(w) == pending[w].op \in {"update_design", "update_totals"}

\* the next Setting.set of the request: upsert and db.session.commit()
Setting_set_commit(w) ==
    /\ InSettingsRequest(w)
    /\ pending[w].done < Len(pending[w].writes)
    /\ LET write == pending[w].writes[pending[w].done + 1]
       IN /\ settings' = SettingSet(settings, write[1], write[2])
          /\ online_accepted' = IF write[1] = "online_total" THEN pending[w].accepted
                                ELSE online_accepted
    /\ pending' = [pending EXCEPT ![w].done = @ + 1]
    /\ UNCHANGED <<backend, users, session, quizzes, school_classes, announcements,
                   now, req, resp>>

\* the next Setting.set of the request raises: the except branch flashes the
\* error and the handler redirects; the commits made before stay
Setting_set_raises(w) ==
    /\ InSettingsRequest(w)
    /\ pending[w].done < Len(pending[w].writes)
    /\ req' = pending[w].r
    /\ resp' = Redirect(pending[w].page, "error", pending[w].failure)
    /\ pending' = [pending EXCEPT ![w] = Idle]
    /\ UNCHANGED <<backend, db, session, now, online_accepted>>

\* the flash and the redirect that end update_design and update_totals
settings_respond(w) ==
    /\ InSettingsRequest(w)
    /\ pending[w].done = Len(pending[w].writes)
    /\ req' = pending[w].r
    /\ resp' = Redirect(pending[w].page, "success",
                        IF pending[w].op = "update_design"
                        THEN "Design settings updated successfully."
                        ELSE "Totals updated successfully.")
    /\ pending' = [pending EXCEPT ![w] = Idle]
    /\ UNCHANGED <<backend, db, session, now, online_accepted>>

\* POST /admin/totals/class/<class_id> up to db.session.commit(): the row is
\* loaded into the request's session and the amount assigned to it
update_class_total_begin(w, class_id, amount_raw) ==
  /\ LET r == [op |-> "update_class_total", class_id |-> class_id,
              rice_bowl_amount |-> amount_raw]
        amount_str == Strip(amount_raw)
        parsed == IF amount_str # "" THEN ParseFloat(amount_str)
                  ELSE [ok |-> TRUE, val |-> F(0)]
    IN /\ pending[w] = Idle
       /\ \/ LoginRequired(r)
          \/ /\ session # NoUser
             /\ IF ClassById(class_id) = {}
                THEN /\ req' = r
                     /\ resp' = Redirect("totals", "error", "Class not found.")
                     /\ UNCHANGED pending
                ELSE IF ~parsed.ok
                THEN /\ req' = r
                     /\ resp' = Redirect("totals", "error", "Please enter a valid number.")
                     /\ UNCHANGED pending
                ELSE IF FloatLt(parsed.val, F(0))
                THEN /\ req' = r
                     /\ resp' = Redirect("totals", "error", "Amount cannot be negative.")
                     /\ UNCHANGED pending
                ELSE /\ pending' = [pending EXCEPT ![w] =
                           [op |-> "update_class_total", r |-> r, class_id |-> class_id,
                            loaded |-> CHOOSE c \in ClassById(class_id) : TRUE,
                            amount |-> parsed.val]]
                     /\ UNCHANGED <<req, resp>>
             /\ UNCHANGED <<backend, db, session, now, online_accepted>>

\* db.session.commit() of update_class_total and the answer. The flush sends
\* UPDATE school_classes SET rice_bowl_amount = ? WHERE id = ? only when the
\* assigned amount differs from the one the session loaded; an UPDATE that
\* matches no row raises, and the handler rolls back.
update_class_total_commit(w) ==
  /\ LET p == pending[w]
        current == ClassById(p.class_id)
        updated == {IF c.id = p.class_id THEN [c EXCEPT !.rice_bowl_amount = p.amount]
                    ELSE c : c \in school_classes}
    IN /\ p.op = "update_class_total"
       /\ req' = p.r
       /\ pending' = [pending EXCEPT ![w] = Idle]
       /\ IF p.amount = p.loaded.rice_bowl_amount
          THEN /\ resp' = Redirect("totals", "success", "Updated class amount.")
               /\ UNCHANGED school_classes
          ELSE IF current = {} \/ ~CommitClassesOk(updated)
          THEN /\ resp' = Redirect("totals", "error", "Error updating class total")
               /\ UNCHANGED school_classes
          ELSE /\ school_classes' = updated
               /\ resp' = Redirect("totals", "success", "Updated class amount.")
       /\ UNCHANGED <<backend, users, session, quizzes, settings, announcements,
                      now, online_accepted>>

\* POST /admin/classes up to db.session.commit(): the duplicate test has
\* passed and the new row is in the request's session
add_class_begin(w, name_raw, amount_raw) ==
  /\ LET r == [op |-> "add_class", name |-> name_raw, rice_bowl_amount |-> amount_raw]
        name == Strip(name_raw)
        initial_amount_str == Strip(amount_raw)
        parsed == IF initial_amount_str # "" THEN ParseFloat(initial_amount_str)
                  ELSE [ok |-> TRUE, val |-> F(0)]
        refusal == IF name = "" THEN "Class name is required."
                   ELSE IF ClassByName(name) # {} THEN "A class with that name already exists."
                   ELSE IF ~parsed.ok THEN "Please enter a valid number for the initial amount."
                   ELSE IF FloatLt(parsed.val, F(0)) THEN "Initial amount cannot be negative."
                   ELSE ""
    IN /\ pending[w] = Idle
       /\ \/ LoginRequired(r)
          \/ /\ session # NoUser
             /\ IF refusal # ""
                THEN /\ req' = r
                     /\ resp' = Redirect("classes", "error", refusal)
                     /\ UNCHANGED pending
                ELSE /\ Cardinality(school_classes)
                           + Cardinality({v \in Workers : pending[v].op = "add_class"})
                        < MaxClasses
                     /\ pending' = [pending EXCEPT ![w] =
                           [op |-> "add_class", r |-> r, name |-> name, amount |-> parsed.val]]
                     /\ UNCHANGED <<req, resp>>
             /\ UNCHANGED <<backend, db, session, now, online_accepted>>

\* db.session.commit() of add_class and the answer: the INSERT is refused by
\* the constraints of the table, and the handler rolls back
add_class_commit(w) ==
  /\ LET p == pending[w]
    IN /\ p.op = "add_class"
       /\ req' = p.r
       /\ pending' = [pending EXCEPT ![w] = Idle]
       /\ \E id \in ClassIds \ {c.id : c \in school_classes} :
             LET added == school_classes \cup
                     {[id |-> id, name |-> p.name, rice_bowl_amount |-> p.amount]}
             IN IF CommitClassesOk(added)
                THEN /\ school_classes' = added
                     /\ resp' = Redirect("classes", "success", "Class added successfully.")
                ELSE /\ resp' = Redirect("classes", "error", "Error adding class")
                     /\ UNCHANGED school_classes
       /\ UNCHANGED <<backend, users, session, quizzes, settings, announcements,
                      now, online_accepted>>

\* POST /admin/classes/<class_id>/edit (JSON) up to db.session.commit()
edit_class_begin(w, class_id, name_raw) ==
  /\ LET r == [op |-> "edit_class", class_id |-> class_id, name |-> name_raw]
        new_name == Strip(name_raw)
    IN /\ pending[w] = Idle
       /\ \/ LoginRequired(r)
          \/ /\ session # NoUser
             /\ IF ClassById(class_id) = {}
                THEN /\ req' = r
                     /\ resp' = Json(404, [success |-> FALSE, error |-> "Class not found"])
                     /\ UNCHANGED pending
                ELSE LET school_class == CHOOSE c \in ClassById(class_id) : TRUE
                     IN IF new_name = ""
                        THEN /\ req' = r
                             /\ resp' = Json(400, [success |-> FALSE,
                                                   error |-> "Class name is required"])
                             /\ UNCHANGED pending
                        ELSE IF /\ new_name # school_class.name
                                /\ \E existing \in ClassByName(new_name) :
                                      existing.id # class_id
                        THEN /\ req' = r
                             /\ resp' = Json(400, [success |-> FALSE,
                                          error |-> "A class with that name already exists"])
                             /\ UNCHANGED pending
                        ELSE /\ pending' = [pending EXCEPT ![w] =
                                   [op |-> "edit_class", r |-> r, class_id |-> class_id,
                                    loaded |-> school_class, name |-> new_name,
                                    amount |-> school_class.rice_bowl_amount]]
                             /\ UNCHANGED <<req, resp>>
             /\ UNCHANGED <<backend, db, session, now, online_accepted>>

\* POST /admin/classes/<class_id> (form) up to db.session.commit()
update_class_begin(w, class_id, name_raw, amount_raw) ==
  /\ LET r == [op |-> "update_class", class_id |-> class_id, name |-> name_raw,
              rice_bowl_amount |-> amount_raw]
        new_name == Strip(name_raw)
        amount_str == Strip(amount_raw)
        parsed == ParseFloat(amount_str)
    IN /\ pending[w] = Idle
       /\ \/ LoginRequired(r)
          \/ /\ session # NoUser
             /\ IF ClassById(class_id) = {}
                THEN /\ req' = r
                     /\ resp' = Redirect("classes", "error", "Class not found.")
                     /\ UNCHANGED pending
                ELSE LET school_class == CHOOSE c \in ClassById(class_id) : TRUE
                         refusal ==
                            IF /\ new_name # "" /\ new_name # school_class.name
                               /\ \E existing \in ClassByName(new_name) :
                                     existing.id # class_id
                            THEN "A class with that name already exists."
                            ELSE IF amount_str # "" /\ ~parsed.ok
                            THEN "Please enter a valid number for the amount."
                            ELSE IF amount_str # "" /\ FloatLt(parsed.val, F(0))
                            THEN "Amount cannot be negative."
                            ELSE ""
                     IN IF refusal # ""
                        THEN /\ req' = r
                             /\ resp' = Redirect("classes", "error", refusal)
                             /\ UNCHANGED pending
                        ELSE /\ pending' = [pending EXCEPT ![w] =
                                   [op |-> "update_class", r |-> r, class_id |-> class_id,
                                    loaded |-> school_class,
                                    name |-> IF new_name # "" THEN new_name
                                             ELSE school_class.name,
                                    amount |-> IF amount_str # "" THEN parsed.val
                                               ELSE school_class.rice_bowl_amount]]
                             /\ UNCHANGED <<req, resp>>
             /\ UNCHANGED <<backend, db, session, now, online_accepted>>

\* the answers that end edit_class (JSON) and update_class (redirect)
RenameAnswer(p, ok) ==
    IF p.op = "edit_class"
    THEN IF ok THEN Json(200, [success |-> TRUE, name |-> p.name])
         ELSE Json(500, [success |-> FALSE, error |-> "IntegrityError"])
    ELSE IF ok THEN Redirect("classes", "success", "Class updated successfully.")
         ELSE Redirect("classes", "error", "Error updating class")

\* db.session.commit() of edit_class and update_class and the answer. The
\* flush sends an UPDATE of the columns whose assigned value differs from the
\* loaded one; it is refused by the constraints of the table or matches no
\* row, and the handler rolls back.
rename_commit(w) ==
  /\ LET p == pending[w]
        current == ClassById(p.class_id)
        updated == {IF c.id = p.class_id
                    THEN [c EXCEPT !.name = IF p.name # p.loaded.name THEN p.name ELSE @,
                                   !.rice_bowl_amount =
                                       IF p.amount # p.loaded.rice_bowl_amount
                                       THEN p.amount ELSE @]
                    ELSE c : c \in school_classes}
    IN /\ p.op \in {"edit_class", "update_class"}
       /\ req' = p.r
       /\ pending' = [pending EXCEPT ![w] = Idle]
       /\ IF p.name = p.loaded.name /\ p.amount = p.loaded.rice_bowl_amount
          THEN /\ resp' = RenameAnswer(p, TRUE)
               /\ UNCHANGED school_classes
          ELSE IF current = {} \/ ~CommitClassesOk(updated)
          THEN /\ resp' = RenameAnswer(p, FALSE)
               /\ UNCHANGED school_classes
          ELSE /\ school_classes' = updated
               /\ resp' = RenameAnswer(p, TRUE)
       /\ UNCHANGED <<backend, users, session, quizzes, settings, announcements,
                      now, online_accepted>>

\* an exception no handler catches: Flask answers 500 Internal Server Error
InternalServerError == Json(500, <<>>)

\* GET /admin/quizzes when _ensure_quizzes_exist raises: quizzes() has no
\* try block, the session is discarded with the rows it added
quizzes_view_raises ==
    /\ session # NoUser
    /\ req' = [op |-> "quizzes"]
    /\ resp' = InternalServerError
    /\ UNCHANGED <<backend, db, session, now, online_accepted, pending>>

\* ------------------------------------------------------ public data endpoint
\* datetime.isoformat() of the instants of DatetimeTable
IsoFormat(t) ==
    CASE t = 1 -> "2026-03-01T10:00:00"
      [] t = 2 -> "2026-03-02T10:00:00"
      [] t = 3 -> "2026-03-03T10:00:00"
      [] OTHER -> "T" \o ToString(t)

\* [line.strip() for line in text.split('\n') if line.strip()]
SplitLines(text) ==
    CASE text = "Ann\n Bob" -> <<"Ann", "Bob">>
      [] text = "" -> <<>>
      [] OTHER -> <<text>>

\* x or '' for a nullable text column
OrEmpty(text) == IF text = NoneText THEN "" ELSE text

\* the winners list: each of winner_1..3 that is set, in order
Winners(quiz) ==
    (IF quiz.winner_1 \notin {NoneText, ""} THEN <<quiz.winner_1>> ELSE <<>>)
    \o (IF quiz.winner_2 \notin {NoneText, ""} THEN <<quiz.winner_2>> ELSE <<>>)
    \o (IF quiz.winner_3 \notin {NoneText, ""} THEN <<quiz.winner_3>> ELSE <<>>)

\* one entry of quiz_data
QuizEntry(quiz, t) ==
    [week_number |-> quiz.week_number,
     country_name |-> quiz.country_name,
     description |-> OrEmpty(quiz.description),
     forms_link |-> OrEmpty(quiz.forms_link),
     opens_at |-> IF quiz.opens_at # None THEN IsoFormat(quiz.opens_at) ELSE NoneText,
     closes_at |-> IF quiz.closes_at # None THEN IsoFormat(quiz.closes_at) ELSE NoneText,
     is_visible |-> is_visible(quiz, t),
     participant_count |-> quiz.participant_count,
     participants |-> IF quiz.participants_text \notin {NoneText, ""}
                      THEN SplitLines(quiz.participants_text) ELSE <<>>,
     winners |-> Winners(quiz)]

\* the keys of the settings document
ApiSettingKeys ==
    {"crs_donation_link", "online_alms_total", "show_grand_total", "theme",
     "school_logo_url", "enable_crs_imagery"}

\* the default each Setting.get of get_data passes
ApiSettingDefault(key) ==
    CASE key = "crs_donation_link" -> ""
      [] key = "online_alms_total" -> "0.00"
      [] key = "show_grand_total" -> "false"
      [] key = "theme" -> "lenten-purple"
      [] key = "school_logo_url" -> ""
      [] key = "enable_crs_imagery" -> "true"

\* settings = {key: Setting.get(key, default), ...}
ApiSettings ==
    [key \in ApiSettingKeys |-> SettingGet(settings, key, ApiSettingDefault(key))]

\* try: float(settings['online_alms_total']) except (ValueError, TypeError): 0.0
OnlineAlms ==
    IF ParseFloat(ApiSettings["online_alms_total"]).ok
    THEN ParseFloat(ApiSettings["online_alms_total"]).val
    ELSE F(0)

\* the document of a request that raised nothing
DataDocument ==
    [current_week |-> _determine_current_week(quizzes, now),
     quizzes |-> {QuizEntry(q, now) : q \in quizzes},
     classes |-> school_classes,
     settings |-> ApiSettings,
     announcements |-> {[id |-> a.id, text |-> a.text, enabled |-> a.enabled] :
                           a \in {x \in announcements : is_active(x, now)}},
     rice_bowl_total |-> SumAmounts(school_classes),
     grand_total |-> FloatAdd(OnlineAlms, SumAmounts(school_classes))]

\* mutant: the fallback keeps the classes read before the failure
FallbackDocument_Partial ==
    [current_week |-> 1,
     quizzes |-> {},
     classes |-> school_classes,
     settings |-> [crs_donation_link |-> "", online_alms_total |-> "0.00",
                   show_grand_total |-> "false", theme |-> "lenten-purple",
                   school_logo_url |-> "", enable_crs_imagery |-> "true"],
     announcements |-> {},
     rice_bowl_total |-> SumAmounts(school_classes),
     grand_total |-> F(0)]

\* error_response of the except branch
FallbackDocument ==
    [current_week |-> 1,
     quizzes |-> {},
     classes |-> {},
     settings |-> [crs_donation_link |-> "", online_alms_total |-> "0.00",
                   show_grand_total |-> "false", theme |-> "lenten-purple",
                   school_logo_url |-> "", enable_crs_imagery |-> "true"],
     announcements |-> {},
     rice_bowl_total |-> F(0),
     grand_total |-> F(0)]

\* GET /api/data; raised: some query of the try block raised
get_data(raised) ==
    /\ req' = [op |-> "get_data"]
    /\ resp' = IF raised THEN Json(500, FallbackDocument) ELSE Json(200, DataDocument)
    /\ UNCHANGED <<backend, db, session, now, online_accepted, pending>>

\* ------------------------------------------------------------ initial state
\* _create_default_admin
DefaultAdmin ==
    [id |-> 1, username |-> "admin", password_hash |-> generate_password_hash("lent2026")]

NoRequest == [op |-> "none"]
NoResponse == Json(0, <<>>)

\* db.create_all() on a fresh database, then _create_default_admin()
Init ==
    /\ backend \in {"sqlite", "postgresql"}
    /\ users = {DefaultAdmin}
    /\ session = NoUser
    /\ quizzes = {}
    /\ school_classes = {}
    /\ settings = <<>>
    /\ announcements = {}
    /\ now = 0
    /\ req = NoRequest
    /\ resp = NoResponse
    /\ online_accepted = F(0)
    /\ pending = [w \in Workers |-> Idle]

\* ------------------------------------------------- totals and classes: inputs
LoginInputs == {<<"admin", "lent2026">>, <<"admin", "wrong">>}
NameInputs == {"", "5A", " 5A ", "5a"}
NumberInputs == {"", "5", "-5", "abc", "nan"}
LinkInputs == {"https://crs.example/give"}

NextTotals ==
    \/ \E c \in LoginInputs : login(c[1], c[2])
    \/ logout
    \/ totals
    \/ \E l \in LinkInputs, n \in NumberInputs : update_totals(l, n)
    \/ \E id \in ClassIds, n \in NumberInputs : update_class_total(id, n)
    \/ \E name \in NameInputs, n \in NumberInputs : add_class(name, n)
    \/ \E id \in ClassIds, name \in NameInputs, n \in NumberInputs : update_class(id, name, n)
    \/ \E id \in ClassIds, name \in NameInputs : edit_class(id, name)
    \/ \E id \in ClassIds : delete_class(id)
    \/ \E raised \in BOOLEAN : get_data(raised)

\* the totals and classes handlers with the public endpoint
SpecTotals == Init /\ [][NextTotals]_vars

\* ------------------------------------------------------- accounts: inputs
UsernameInputs == {"admin", "nobody"}
PasswordInputs == {"", "lent2026", "abc12", "abc123"}

NextAuth ==
    \/ \E u \in UsernameInputs, p \in PasswordInputs : login(u, p)
    \/ logout
    \/ \E c \in PasswordInputs, n \in PasswordInputs, k \in PasswordInputs :
          update_account(c, n, k)

\* login, logout and the password change
SpecAuth == Init /\ [][NextAuth]_vars

\* -------------------------------------------------------- quizzes: inputs
\* the weeks whose form is submitted
EditWeeks == {1, 2}
\* schedule_mode and the manual_visible checkbox
ModeInputs == {<<"manual", "on">>, <<"manual", "">>, <<"scheduled", "">>,
               <<"scheduled", "on">>, <<"auto", "on">>}
\* opens_at and closes_at of a submission that is accepted
WindowInputs == {<<"", "">>, <<"", "2026-03-01T10:00">>,
                 <<"2026-03-01T10:00", "2026-03-02 10:00">>,
                 <<"2026-03-03T10:00:00", "">>}
\* opens_at and closes_at of a submission that is refused
BadWindowInputs == {<<"2026-03-02 10:00", "2026-03-02 10:00">>, <<"tomorrow", "">>}

ScheduleForm(mode, window) ==
    [country_name |-> "Kenya", description |-> "", forms_link |-> "",
     schedule_mode |-> mode[1], manual_visible |-> mode[2],
     opens_at |-> window[1], closes_at |-> window[2],
     participant_count |-> "3", participants_text |-> "Ann\n Bob \n",
     winner_1 |-> "Ann", winner_2 |-> "", winner_3 |-> ""]

ScheduleForms ==
    {ScheduleForm(m, w) : m \in ModeInputs, w \in WindowInputs}
    \cup {ScheduleForm(<<"scheduled", "">>, w) : w \in BadWindowInputs}

\* the quiz tables the application may be started on: none, or the rows of
\* some weeks only
SeedWeekSets == {{}, {2}}
SeedQuizzes(weekSet) == {NewQuiz(w, w) : w \in weekSet}

InitQuiz ==
    /\ backend = "sqlite"
    /\ users = {DefaultAdmin}
    /\ session = NoUser
    /\ quizzes \in {SeedQuizzes(weekSet) : weekSet \in SeedWeekSets}
    /\ school_classes = {}
    /\ settings = <<>>
    /\ announcements = {}
    /\ now = 0
    /\ req = NoRequest
    /\ resp = NoResponse
    /\ online_accepted = F(0)
    /\ pending = [w \in Workers |-> Idle]

NextQuiz ==
    \/ login("admin", "lent2026")
    \/ quizzes_view
    \/ \E week \in EditWeeks, form \in ScheduleForms : update_quiz(week, form)
    \/ Tick
    \/ \E raised \in BOOLEAN : get_data(raised)

\* the quiz handlers, the clock and the public endpoint
SpecQuiz == InitQuiz /\ [][NextQuiz]_vars

\* -------------------------------------------------- announcements: inputs
AnnouncementForm(text, enabled, window) ==
    [text |-> text, enabled |-> enabled, start_at |-> window[1], end_at |-> window[2]]

AnnouncementWindows == {<<"", "">>, <<"2026-03-01T10:00", "">>, <<"", "2026-03-02 10:00">>,
                        <<"2026-03-01T10:00", "2026-03-02 10:00">>}

AnnouncementForms ==
    {AnnouncementForm(" 5A ", e, w) : e \in {"on", ""}, w \in AnnouncementWindows}
    \cup {AnnouncementForm(" ", "on", <<"", "">>),
          AnnouncementForm("5A", "on", <<"tomorrow", "">>),
          AnnouncementForm("5A", "on", <<"2026-03-02 10:00", "2026-03-02 10:00">>)}

NextAnnouncements ==
    \/ login("admin", "lent2026")
    \/ \E form \in AnnouncementForms : add_announcement(form)
    \/ \E id \in AnnouncementIds, form \in AnnouncementForms : update_announcement(id, form)
    \/ \E id \in AnnouncementIds : delete_announcement(id)
    \/ Tick
    \/ \E raised \in BOOLEAN : get_data(raised)

\* the announcement handlers, the clock and the public endpoint
SpecAnnouncements == Init /\ [][NextAnnouncements]_vars

\* ------------------------------------------------------- settings: inputs
\* a stored value, not the default, for each key of the settings document
SeedValue(key) ==
    CASE key = "crs_donation_link" -> "https://crs.example/old"
      [] key = "online_alms_total" -> "5"
      [] key = "show_grand_total" -> "true"
      [] key = "theme" -> "ocean"
      [] key = "school_logo_url" -> "/logo.png"
      [] key = "enable_crs_imagery" -> "false"

\* the settings tables the application may be started on
SeedKeySets == {{}, {"theme"}, {"online_alms_total", "show_grand_total"}, ApiSettingKeys}

InitSettings ==
    /\ backend = "sqlite"
    /\ users = {DefaultAdmin}
    /\ session = NoUser
    /\ quizzes = {}
    /\ school_classes = {}
    /\ settings \in {[key \in keys |-> SeedValue(key)] : keys \in SeedKeySets}
    /\ announcements = {}
    /\ now = 0
    /\ req = NoRequest
    /\ resp = NoResponse
    /\ online_accepted = F(0)
    /\ pending = [w \in Workers |-> Idle]

NextSettings ==
    \/ login("admin", "lent2026")
    \/ \E theme \in {"", " dark "}, logo \in {"", "/logo.png"}, imagery \in {"on", ""} :
          update_design(theme, logo, imagery)
    \/ \E l \in LinkInputs, n \in {"5", "abc"} : update_totals(l, n)
    \/ \E raised \in BOOLEAN : get_data(raised)

\* the handlers that write settings and the public endpoint
SpecSettings == InitSettings /\ [][NextSettings]_vars

\* ------------------------------------------- quiz and announcement forms
\* participant_count of a submission
CountInputs == {"", "3", "-5", "abc"}

WeekForm(mode, window, count) ==
    [ScheduleForm(mode, window) EXCEPT !.participant_count = count]

\* accepted and refused windows, with every participant_count
WeekForms ==
    {WeekForm(m, w, c) : m \in {<<"manual", "on">>, <<"scheduled", "">>},
                         w \in {<<"", "">>, <<"2026-03-01T10:00", "2026-03-02 10:00">>}
                               \cup BadWindowInputs \cup {<<"2026-03-02 10:00", "2026-03-01T10:00">>},
                         c \in CountInputs}

\* accepted and refused windows of an announcement
WindowedAnnouncementForms ==
    {AnnouncementForm("5A", "on", w) :
        w \in {<<"", "2026-03-02 10:00">>, <<"2026-03-01T10:00", "2026-03-02 10:00">>,
               <<"2026-03-02 10:00", "2026-03-02 10:00">>,
               <<"2026-03-03T10:00:00", "2026-03-01T10:00">>}}

NextSchedules ==
    \/ login("admin", "lent2026")
    \/ quizzes_view
    \/ \E form \in WeekForms : update_quiz(1, form)
    \/ \E form \in WindowedAnnouncementForms : add_announcement(form)
    \/ \E id \in AnnouncementIds, form \in WindowedAnnouncementForms :
          update_announcement(id, form)
    \/ get_data(FALSE)

\* the handlers that store a window, with the public endpoint
SpecSchedules == InitQuiz /\ [][NextSchedules]_vars

\* ------------------------------------------------- every admin endpoint
QuizForm == ScheduleForm(<<"scheduled", "">>, <<"2026-03-01T10:00", "2026-03-02 10:00">>)

NextAdmin ==
    \/ \E c \in LoginInputs : login(c[1], c[2])
    \/ logout
    \/ dashboard
    \/ quizzes_view
    \/ update_quiz(1, QuizForm)
    \/ totals
    \/ \E l \in LinkInputs : update_totals(l, "5")
    \/ update_class_total(1, "")
    \/ classes
    \/ add_class("5A", "5")
    \/ update_class(1, "5A", "5")
    \/ edit_class(1, "5a")
    \/ \E id \in ClassIds : delete_class(id)
    \/ announcements_view
    \/ add_announcement(AnnouncementForm("5A", "on", <<"", "">>))
    \/ update_announcement(1, AnnouncementForm("5A", "", <<"", "">>))
    \/ \E id \in AnnouncementIds : delete_announcement(id)
    \/ design
    \/ update_design(" dark ", "", "on")
    \/ account
    \/ update_account("lent2026", "abc123", "abc123")

\* every endpoint of the admin blueprint
SpecAdmin == Init /\ [][NextAdmin]_vars

\* ------------------------------------------------------- commits: inputs
\* the worker of the admin request that is followed statement by statement
SettingsWorker == {1}

NextCommits ==
    \/ login("admin", "lent2026")
    \/ \E w \in SettingsWorker, theme \in {" dark ", "ocean"} :
          update_design_begin(w, theme, "/logo.png", "on")
    \/ \E w \in SettingsWorker, l \in LinkInputs, n \in {"5", "abc"} :
          update_totals_begin(w, l, n)
    \/ \E w \in SettingsWorker : Setting_set_commit(w)
    \/ \E w \in SettingsWorker : Setting_set_raises(w)
    \/ \E w \in SettingsWorker : settings_respond(w)
    \/ quizzes_view
    \/ quizzes_view_raises
    \/ get_data(FALSE)

\* update_design and update_totals commit by commit, with persistence
\* errors and public reads between the commits
SpecCommits == InitSettings /\ [][NextCommits]_vars

\* ------------------------------------------------------- writers: inputs
NextWriters ==
    \/ login("admin", "lent2026")
    \/ add_class("5A", "5")
    \/ \E w \in Workers, id \in ClassIds, n \in {"5", "7", "-5"} :
          update_class_total_begin(w, id, n)
    \/ \E w \in Workers : update_class_total_commit(w)
    \/ totals
    \/ get_data(FALSE)

\* requests that set a class amount at the same time, with the reads
SpecWriters == Init /\ [][NextWriters]_vars

\* ------------------------------------------------------- renames: inputs
NextRenames ==
    \/ login("admin", "lent2026")
    \/ \E w \in Workers, name \in {"5A", " 5A ", "5a"} : add_class_begin(w, name, "5")
    \/ \E w \in Workers : add_class_commit(w)
    \/ \E w \in Workers, id \in ClassIds, name \in {"5A", "5a"} : edit_class_begin(w, id, name)
    \/ \E w \in Workers, id \in ClassIds, name \in {" 5A ", "5a"}, n \in {"", "7"} :
          update_class_begin(w, id, name, n)
    \/ \E w \in Workers : rename_commit(w)
    \/ classes

\* requests that add and rename classes at the same time
SpecRenames == Init /\ [][NextRenames]_vars

\* =================================================================== claims

\* a number the claims call numeric: float() reads it and it is not NaN
IsNumber(s) == ParseFloat(Strip(s)).ok /\ ~ParseFloat(Strip(s)).val.nan

\* every stored class amount is a number >= 0
AmountsNonNegative(rows) == \A c \in rows : FloatGe(c.rice_bowl_amount, F(0))

\* C1: in every reachable state the grand_total of the public data document
\* (and of the admin totals view) is the sum of the stored class amounts plus
\* the online total update_totals accepted last, and rice_bowl_total is the
\* sum of the stored class amounts.  Stated for the states whose amounts and
\* accepted online total are numbers.
C1_GrandTotalIsClassesPlusOnline ==
    (~online_accepted.nan /\ AmountsNonNegative(school_classes)) =>
        /\ (req.op = "get_data" /\ resp.status = 200) =>
              /\ resp.body.rice_bowl_total = SumAmounts(school_classes)
              /\ resp.body.grand_total = FloatAdd(SumAmounts(school_classes), online_accepted)
        /\ (req.op = "totals" /\ resp.status = 200 /\ resp.to = "totals") =>
              /\ resp.body.rice_bowl_total = SumAmounts(school_classes)
              /\ resp.body.grand_total = FloatAdd(SumAmounts(school_classes), online_accepted)

\* a step of update_class_total or update_class that reached its class
C5_AmountStep ==
    /\ req'.op \in {"update_class_total", "update_class"}
    /\ session # NoUser
    /\ ClassById(req'.class_id) # {}

\* C5: update_class_total and update_class reject a negative or non-numeric
\* amount (a blank field is no amount) with an error and leave every class as
\* it was; hence no step of theirs makes a stored amount other than a
\* number >= 0.
C5_BadAmountRejected ==
    [][C5_AmountStep =>
         /\ ( /\ Strip(req'.rice_bowl_amount) # ""
              /\ \/ ~IsNumber(req'.rice_bowl_amount)
                 \/ FloatLt(ParseFloat(Strip(req'.rice_bowl_amount)).val, F(0)) )
            => (resp'.category = "error" /\ school_classes' = school_classes)
         /\ AmountsNonNegative(school_classes) => AmountsNonNegative(school_classes')]_vars

\* the duplicate-name answers of the form paths and of the JSON path
IsDuplicateAnswer(r) ==
    \/ r.category = "error" /\ r.flash = "A class with that name already exists."
    \/ r.status = 400 /\ r.body = [success |-> FALSE,
                                  error |-> "A class with that name already exists"]

\* the rename request of a step names a class that exists; new is its stripped name
C6_RenameStep ==
    /\ req'.op \in {"update_class", "edit_class"}
    /\ session # NoUser
    /\ ClassById(req'.class_id) # {}
    /\ Strip(req'.name) # ""

C6_Step ==
    /\ (req'.op = "add_class" /\ session # NoUser
          /\ \E c \in school_classes : c.name = Strip(req'.name))
       => (IsDuplicateAnswer(resp') /\ school_classes' = school_classes)
    /\ (C6_RenameStep /\ \E c \in school_classes :
                            c.name = Strip(req'.name) /\ c.id # req'.class_id)
       => (IsDuplicateAnswer(resp') /\ school_classes' = school_classes)
    /\ (C6_RenameStep /\ \E c \in school_classes :
                            c.name = Strip(req'.name) /\ c.id = req'.class_id)
       => /\ ~IsDuplicateAnswer(resp')
          /\ {[id |-> c.id, name |-> c.name] : c \in school_classes'}
               = {[id |-> c.id, name |-> c.name] : c \in school_classes}
          /\ (req'.op = "edit_class" \/ Strip(req'.rice_bowl_amount) = "")
                => /\ school_classes' = school_classes
                   /\ \/ resp'.category = "success"
                      \/ resp'.status = 200 /\ resp'.body.success

\* C6: add_class with the exact name of an existing class is rejected and
\* creates no row; a rename to the name of another class is rejected on the
\* form path and on the JSON path and changes nothing; a rename of a class to
\* its own name is no duplicate, changes no name and, with no amount
\* submitted, succeeds leaving the table as it was.
C6_DuplicateNamesRejected == [][C6_Step]_vars

\* C6 witness: the JSON rename of a class to the name of another one was
\* refused, in a table holding two names that differ in case only.
C6_Witness ==
    /\ req.op = "edit_class"
    /\ IsDuplicateAnswer(resp)
    /\ {c.name : c \in school_classes} = {"5A", "5a"}

\* the test of login: some stored user has that name and that password
Authenticates(table, username, password) ==
    \E u \in table : u.username = username /\ check_password(u, password)

\* a step of update_account by a logged-in user
C4_Step == req'.op = "update_account" /\ session # NoUser

\* the three refusals the claim names
C4_Refused ==
    \/ ~check_password(current_user, req'.current_password)
    \/ req'.new_password # req'.confirm_password
    \/ Len(req'.new_password) < MinPasswordLen

\* C4 as stated: the change fails, the hash unchanged, on a wrong current
\* password, on new # confirm or on a new password of fewer than 6 characters;
\* otherwise it succeeds, the new password authenticates and the old one no
\* longer does.
C4_OldPasswordNeverAuthenticates ==
    [][C4_Step =>
         /\ C4_Refused => (users' = users /\ resp'.category = "error")
         /\ ~C4_Refused =>
               /\ resp'.category = "success"
               /\ Authenticates(users', current_user.username, req'.new_password)
               /\ ~Authenticates(users', current_user.username, req'.current_password)]_vars

\* C4 amended: as stated, but the old password stops authenticating only when
\* the new password differs from it (a change to the same password succeeds
\* and leaves it valid).
C4_PasswordChange ==
    [][C4_Step =>
         /\ C4_Refused => (users' = users /\ resp'.category = "error")
         /\ ~C4_Refused =>
               /\ resp'.category = "success"
               /\ Authenticates(users', current_user.username, req'.new_password)
               /\ req'.new_password # req'.current_password
                    => ~Authenticates(users', current_user.username,
                                      req'.current_password)]_vars

\* C4 witness: after a password change a login with a password other than the
\* initial one succeeded, and the initial one is no longer the stored one.
C4_Witness ==
    /\ req.op = "login"
    /\ resp.category = "success"
    /\ req.password = "abc123"
    /\ ~Authenticates(users, "admin", "lent2026")

\* the names _ensure_quizzes_exist gives the weeks it creates
DefaultNames == <<"Week 1", "Week 2", "Week 3", "Week 4", "Week 5", "Week 6">>

\* C2: after the quiz listing has run _ensure_quizzes_exist, each week 1..6
\* has exactly one row; the rows that existed are unchanged, the created ones
\* are named "Week N", manual and not visible; a second call changes nothing.
C2_EnsureWeeksExist ==
    [][(req'.op = "quizzes" /\ session # NoUser) =>
         /\ \A w \in 1..6 : Cardinality({q \in quizzes' : q.week_number = w}) = 1
         /\ \A q \in quizzes' : q.week_number \in 1..6
         /\ quizzes \subseteq quizzes'
         /\ \A q \in quizzes' \ quizzes :
               /\ q.week_number \notin {o.week_number : o \in quizzes}
               /\ q.country_name = DefaultNames[q.week_number]
               /\ q.schedule_mode = "manual"
               /\ ~q.manual_visible
         /\ _ensure_quizzes_exist(quizzes') = quizzes']_vars

\* C2 witness: the listing completed a table that held week 2 only, whose row
\* had been edited: week 1 was created after it and week 2 kept its edit.
C2_Witness ==
    /\ req.op = "quizzes"
    /\ Cardinality(quizzes) = 6
    /\ \E q \in quizzes : q.week_number = 2 /\ q.id = 2 /\ q.country_name = "Kenya"
    /\ \E q \in quizzes : q.week_number = 1 /\ q.id > 2

\* the quizzes visible now, and the scheduled quizzes that have closed
VisibleNow == {q \in quizzes : is_visible(q, now)}
ClosedNow ==
    {q \in quizzes : q.schedule_mode = "scheduled" /\ q.closes_at # None /\ now > q.closes_at}
Capped(week) ==
    IF \A q \in quizzes : week >= q.week_number
    THEN CHOOSE m \in {q.week_number : q \in quizzes} : \A q \in quizzes : m >= q.week_number
    ELSE week

\* C3 as stated: current_week is the week of the lowest-numbered visible quiz;
\* else the week after the most recently closed scheduled quiz, capped at the
\* highest defined week; else 1.
C3_AfterMostRecentlyClosed ==
    LET cw == DataDocument.current_week
    IN IF VisibleNow # {}
       THEN \E q \in VisibleNow : cw = q.week_number
                                   /\ \A r \in VisibleNow : q.week_number <= r.week_number
       ELSE IF ClosedNow # {}
       THEN \E q \in ClosedNow : /\ \A r \in ClosedNow : r.closes_at <= q.closes_at
                                 /\ cw = Capped(q.week_number + 1)
       ELSE cw = 1

\* C3 amended: as stated, with the highest-numbered closed scheduled quiz in
\* the place of the most recently closed one (the two are the same quiz when
\* the closing times increase with the week number).
C3_AfterHighestClosed ==
    LET cw == DataDocument.current_week
    IN IF VisibleNow # {}
       THEN \E q \in VisibleNow : cw = q.week_number
                                   /\ \A r \in VisibleNow : q.week_number <= r.week_number
       ELSE IF ClosedNow # {}
       THEN \E q \in ClosedNow : /\ \A r \in ClosedNow : r.week_number <= q.week_number
                                 /\ cw = Capped(q.week_number + 1)
       ELSE cw = 1

\* C3 witness: the endpoint answered current_week = 2 with week 1 closed and
\* week 2 scheduled but not yet open.
C3_Witness ==
    /\ req.op = "get_data" /\ resp.status = 200 /\ resp.body = DataDocument
    /\ resp.body.current_week = 2
    /\ \E q \in ClosedNow : q.week_number = 1
    /\ \E q \in quizzes : /\ q.week_number = 2 /\ q.schedule_mode = "scheduled"
                          /\ q.opens_at # None /\ now < q.opens_at

\* the is_visible the public document reports for a quiz
ReportedVisible(quiz) ==
    \E e \in DataDocument.quizzes : e.week_number = quiz.week_number /\ e.is_visible

\* C7: a quiz in scheduled mode is visible, at every time, iff both its
\* timestamps are set and opens_at <= now <= closes_at; its manual_visible
\* flag changes nothing.
C7_ScheduledVisibility ==
    \A q \in quizzes : q.schedule_mode = "scheduled" =>
        /\ ReportedVisible(q) <=>
              (q.opens_at # None /\ q.closes_at # None
               /\ q.opens_at <= now /\ now <= q.closes_at)
        /\ \A t \in 0..MaxTime, flag \in BOOLEAN :
              is_visible([q EXCEPT !.manual_visible = flag], t) <=>
                 (q.opens_at # None /\ q.closes_at # None
                  /\ q.opens_at <= t /\ t <= q.closes_at)

\* C7 witness: the endpoint reported visible, at its closing instant, a
\* scheduled quiz whose manual_visible flag is off.
C7_Witness ==
    /\ req.op = "get_data" /\ resp.status = 200 /\ resp.body = DataDocument
    /\ \E q \in quizzes : /\ q.schedule_mode = "scheduled" /\ ~q.manual_visible
                          /\ q.closes_at = now /\ ReportedVisible(q)

\* C8: a quiz in manual mode is visible iff its manual_visible flag is set,
\* whatever its timestamps and the time.
C8_ManualVisibility ==
    \A q \in quizzes : q.schedule_mode = "manual" =>
        /\ ReportedVisible(q) <=> q.manual_visible
        /\ \A t \in 0..MaxTime : is_visible(q, t) <=> q.manual_visible

\* C8 witness: the endpoint reported visible a manual quiz whose window had
\* closed.
C8_Witness ==
    /\ req.op = "get_data" /\ resp.status = 200 /\ resp.body = DataDocument
    /\ \E q \in quizzes : /\ q.schedule_mode = "manual" /\ q.manual_visible
                          /\ q.closes_at # None /\ q.closes_at < now
                          /\ ReportedVisible(q)

\* enabled, and now inside [start, end] with an unset bound unbounded
ActiveAt(ann, t) ==
    /\ ann.enabled
    /\ ann.start_at = None \/ ann.start_at <= t
    /\ ann.end_at = None \/ t <= ann.end_at

\* C9: for every announcement and every time, is_active holds iff enabled
\* is true and (start is unset or start <= now) and (end is unset or
\* now <= end); a disabled announcement is never active; the document of the
\* public endpoint lists exactly the announcements that are active now.
C9_ActiveAnnouncements ==
    /\ \A a \in announcements, t \in 0..MaxTime :
          /\ is_active(a, t) <=> ActiveAt(a, t)
          /\ ~a.enabled => ~is_active(a, t)
    /\ DataDocument.announcements =
          {[id |-> a.id, text |-> a.text, enabled |-> a.enabled] :
              a \in {x \in announcements : ActiveAt(x, now)}}

\* C9 witness: the endpoint answered at the end instant of an enabled
\* announcement without a start, listing it and leaving out a disabled
\* announcement whose window contains now.
C9_Witness ==
    /\ req.op = "get_data" /\ resp.status = 200 /\ resp.body = DataDocument
    /\ \E a, b \in announcements :
          /\ a.enabled /\ a.start_at = None /\ a.end_at = now
          /\ \E e \in resp.body.announcements : e.id = a.id
          /\ ~b.enabled /\ b.start_at # None /\ b.start_at <= now
          /\ b.end_at # None /\ now <= b.end_at
          /\ \A e \in resp.body.announcements : e.id # b.id

\* the documented default of each key of the settings document
DocumentedDefaults ==
    [crs_donation_link |-> "", online_alms_total |-> "0.00", show_grand_total |-> "false",
     theme |-> "lenten-purple", school_logo_url |-> "", enable_crs_imagery |-> "true"]

\* the stored value of a key if a row exists, its documented default otherwise
StoredOrDefault(key) ==
    IF key \in DOMAIN settings THEN settings[key] ELSE DocumentedDefaults[key]

\* the last request was answered by the public endpoint (every handler that
\* writes a setting replaces req, so the answer is about the current table)
AnsweredData == req.op = "get_data"

\* C10 as stated: in every response of the public endpoint, normal or
\* fallback, the settings document contains the six documented keys, each
\* carrying its stored value if a row exists and its default otherwise.
C10_StoredOrDefaultInEveryResponse ==
    AnsweredData =>
        /\ DOMAIN DocumentedDefaults \subseteq DOMAIN resp.body.settings
        /\ \A key \in DOMAIN DocumentedDefaults :
              resp.body.settings[key] = StoredOrDefault(key)

\* C10 amended: every response of the public endpoint contains the six
\* documented keys; in a normal response each carries its stored value if a
\* row exists and its default otherwise, in a fallback response each carries
\* its default whatever the table holds.
C10_SettingsDocument ==
    AnsweredData =>
        /\ DOMAIN DocumentedDefaults \subseteq DOMAIN resp.body.settings
        /\ \A key \in DOMAIN DocumentedDefaults :
              resp.body.settings[key] =
                 IF resp.status = 200 THEN StoredOrDefault(key)
                 ELSE DocumentedDefaults[key]

\* C10 witness: a normal response carrying the theme the administrator
\* stored and the default of show_grand_total, which has no row.
C10_Witness ==
    /\ AnsweredData /\ resp.status = 200
    /\ "theme" \in DOMAIN settings /\ settings["theme"] = "dark"
    /\ resp.body.settings["theme"] = "dark"
    /\ "show_grand_total" \notin DOMAIN settings
    /\ resp.body.settings["show_grand_total"] = "false"

\* the fixed document of a failed read
FixedFallback ==
    [current_week |-> 1, quizzes |-> {}, classes |-> {}, settings |-> DocumentedDefaults,
     announcements |-> {}, rice_bowl_total |-> F(0), grand_total |-> F(0)]

\* C11: every request of the public endpoint is answered either by the
\* complete document with status 200 or, when a step of assembling it
\* failed, by the fixed fallback document with status 500 (never by a
\* partly assembled one), and it changes no persisted state.
C11_FallbackOnFailure ==
    [][req'.op = "get_data" =>
          /\ \/ resp'.status = 200 /\ resp'.body = DataDocument
             \/ resp'.status = 500 /\ resp'.body = FixedFallback
          /\ db' = db /\ session' = session]_vars

\* C11 witness: a failed read answered 500 with no class and the default
\* link while a class and a donation link are stored.
C11_Witness ==
    /\ req.op = "get_data" /\ resp.status = 500
    /\ school_classes # {} /\ resp.body.classes = {}
    /\ "crs_donation_link" \in DOMAIN settings /\ settings["crs_donation_link"] # ""
    /\ resp.body.settings["crs_donation_link"] = ""
    /\ resp.body.rice_bowl_total = F(0)

\* C12: a request to an admin endpoint other than login, made while no user
\* is logged in, changes no persisted state and is redirected to login; a
\* session is established only by a login whose username and password match
\* a stored user.
C12_SessionRequired ==
    [][/\ (session = NoUser /\ req'.op # "login") =>
              (db' = db /\ session' = NoUser /\ resp' = Unauthorized)
       /\ (session = NoUser /\ session' # NoUser) =>
              /\ req'.op = "login"
              /\ \E u \in users : /\ u.id = session'
                                  /\ u.username = Strip(req'.username)
                                  /\ u.password_hash = generate_password_hash(req'.password)
      ]_vars

\* C12 witness: after a logout, a request to delete a stored class was
\* redirected to login and the class is still stored.
C12_Witness ==
    /\ session = NoUser /\ req.op = "delete_class" /\ resp = Unauthorized
    /\ ClassById(req.class_id) # {}
    /\ quizzes # {} /\ announcements # {}

\* C13: update_totals rejects a negative or non-numeric online total (a blank
\* field is no value) with an error and writes nothing: neither the online
\* total nor the donation link of the same form.
C13_BadOnlineTotalRejected ==
    [][(/\ req'.op = "update_totals"
        /\ session # NoUser
        /\ Strip(req'.online_total) # ""
        /\ \/ ~IsNumber(req'.online_total)
           \/ FloatLt(ParseFloat(Strip(req'.online_total)).val, F(0)))
       => (resp'.category = "error" /\ db' = db)]_vars

\* a step of update_quiz that found its row and accepted the window
C14_CountStep ==
    /\ req'.op = "update_quiz" /\ session # NoUser
    /\ \E q \in quizzes : q.week_number = req'.week
    /\ ParseOptionalDatetime(req'.form.opens_at).ok
    /\ ParseOptionalDatetime(req'.form.closes_at).ok
    /\ LET opens == ParseOptionalDatetime(req'.form.opens_at).val
           closes == ParseOptionalDatetime(req'.form.closes_at).val
       IN opens = None \/ closes = None \/ opens < closes

\* the submitted participant_count is blank or no non-negative integer
C14_BlankOrInvalid ==
    LET text == Strip(req'.form.participant_count)
    IN text = "" \/ ~ParseInt(text).ok \/ ParseInt(text).val < 0

\* C14: update_quiz stores 0, without an error, when participant_count is
\* blank or invalid; hence every stored participant_count is >= 0.
C14_ParticipantCountNonNegative ==
    /\ [](\A q \in quizzes : q.participant_count >= 0)
    /\ [][(C14_CountStep /\ C14_BlankOrInvalid) =>
              /\ resp'.category # "error"
              /\ \A q \in quizzes' : q.week_number = req'.week => q.participant_count = 0]_vars

\* C20: in every reachable state the schedule_mode of every stored quiz is
\* manual or scheduled.
C20_ScheduleModeKnown ==
    \A q \in quizzes : q.schedule_mode \in {"manual", "scheduled"}

\* the form of the step is one update_quiz refuses: an unparseable
\* timestamp, an opening not before the closing, or a malformed count
C15_Malformed ==
    LET form == req'.form
        opens == ParseOptionalDatetime(form.opens_at)
        closes == ParseOptionalDatetime(form.closes_at)
    IN \/ ~opens.ok \/ ~closes.ok
       \/ opens.val # None /\ closes.val # None /\ opens.val >= closes.val
       \/ Strip(form.participant_count) # "" /\ ~ParseInt(Strip(form.participant_count)).ok

\* every submitted field is in the stored row
C15_AllFieldsOf(form, row) ==
    /\ row.country_name = Strip(form.country_name)
    /\ row.schedule_mode = form.schedule_mode
    /\ row.manual_visible = (form.manual_visible = "on")
    /\ row.opens_at = ParseOptionalDatetime(form.opens_at).val
    /\ row.closes_at = ParseOptionalDatetime(form.closes_at).val
    /\ row.participant_count = IF Strip(form.participant_count) = "" THEN 0
                               ELSE ParseInt(Strip(form.participant_count)).val
    /\ row.participants_text = Strip(form.participants_text)
    /\ row.winner_1 = Strip(form.winner_1)
    /\ row.winner_2 = NoneText /\ row.winner_3 = NoneText
    /\ row.description = NoneText /\ row.forms_link = NoneText

\* C15: update_quiz is all-or-nothing: a refused submission leaves every
\* quiz row, as any later request reads it, equal to the row before the call;
\* an accepted one stores all its fields in one commit and touches no other
\* row.
C15_AllOrNothing ==
    [][(req'.op = "update_quiz" /\ session # NoUser) =>
          IF C15_Malformed \/ ~(\E q \in quizzes : q.week_number = req'.week)
          THEN /\ resp'.category = "error"
               /\ quizzes' = quizzes
          ELSE LET old == {q \in quizzes : q.week_number = req'.week}
                   new == {q \in quizzes' : q.week_number = req'.week}
               IN /\ resp'.category = "success"
                  /\ Cardinality(new) = 1
                  /\ \A n \in new : /\ C15_AllFieldsOf(req'.form, n)
                                    /\ \E o \in old : n.id = o.id
                  /\ quizzes' \ new = quizzes \ old]_vars

\* C15 witness: a submission whose opening is not before its closing was
\* refused, and the row it named keeps the mode and the window stored before.
C15_Witness ==
    /\ req.op = "update_quiz" /\ resp.category = "error"
    /\ resp.flash = "Opening date must be before closing date."
    /\ \E q \in quizzes : /\ q.week_number = req.week
                          /\ q.country_name = "Kenya"
                          /\ q.schedule_mode # req.form.schedule_mode
                          /\ q.opens_at = None
                          /\ q.participant_count = -5

\* both instants are set and the first is not strictly before the second
NotBefore(first, second) ==
    /\ first.ok /\ second.ok
    /\ first.val # None /\ second.val # None
    /\ first.val >= second.val

\* the step submits a window whose first instant is not before its second
C19_BadWindowStep ==
    /\ session # NoUser
    /\ \/ /\ req'.op = "update_quiz"
          /\ NotBefore(ParseOptionalDatetime(req'.form.opens_at),
                       ParseOptionalDatetime(req'.form.closes_at))
       \/ /\ req'.op \in {"add_announcement", "update_announcement"}
          /\ NotBefore(ParseOptionalDatetime(req'.form.start_at),
                       ParseOptionalDatetime(req'.form.end_at))

\* C19: every stored quiz with both opens_at and closes_at set has opens_at
\* strictly before closes_at and every stored announcement with both start_at
\* and end_at set has start_at strictly before end_at; a submission with the
\* first not strictly before the second is refused and changes no record.
C19_WindowsOrdered ==
    /\ [](\A q \in quizzes :
             (q.opens_at # None /\ q.closes_at # None) => q.opens_at < q.closes_at)
    /\ [](\A a \in announcements :
             (a.start_at # None /\ a.end_at # None) => a.start_at < a.end_at)
    /\ [][C19_BadWindowStep =>
             /\ resp'.category = "error"
             /\ quizzes' = quizzes /\ announcements' = announcements]_vars

\* C19 witness: an update whose start equals its end was refused and the
\* announcement keeps its ordered window, next to a quiz with an ordered one.
C19_Witness ==
    /\ req.op = "update_announcement"
    /\ resp.flash = "Start date must be before end date."
    /\ req.form.start_at = req.form.end_at
    /\ \E a \in AnnouncementById(req.id) : a.start_at # None /\ a.start_at < a.end_at
    /\ \E q \in quizzes : q.opens_at # None /\ q.opens_at < q.closes_at

\* the value a reader of the table finds under key, NoneText without a row
Stored(table, key) == IF key \in DOMAIN table THEN table[key] ELSE NoneText

\* seen shows, of the Setting.set calls of request p on the keys of seen,
\* either all of them or none of them (prior: what was there before p)
AllOrNone(p, seen, prior) ==
    LET shown == {i \in 1..Len(p.writes) : p.writes[i][1] \in DOMAIN seen}
    IN \/ \A i \in shown : seen[p.writes[i][1]] = p.writes[i][2]
       \/ \A i \in shown : seen[p.writes[i][1]] = prior[p.writes[i][1]]

\* a step of the public endpoint
PublicReadStep == req'.op = "get_data" /\ resp'.status = 200 /\ pending' = pending /\ db' = db

\* worker w ends its update_design or update_totals in this step
SettingsRequestEnds(w) == InSettingsRequest(w) /\ pending'[w] = Idle

\* the keys request p writes
WriteKeys(p) == {p.writes[i][1] : i \in 1..Len(p.writes)}

\* C16: the settings one update_totals or update_design request writes become
\* visible together: no public read made while the request runs shows only
\* some of them, and no request, failed part-way or not, leaves only some of
\* them written.
C16_SettingsWrittenTogether ==
    [][\A w \in Workers :
          /\ (PublicReadStep /\ InSettingsRequest(w)) =>
                AllOrNone(pending[w], resp'.body.settings,
                          [key \in DOMAIN DocumentedDefaults |->
                              IF key \in DOMAIN pending[w].before
                              THEN pending[w].before[key] ELSE DocumentedDefaults[key]])
          /\ SettingsRequestEnds(w) =>
                AllOrNone(pending[w],
                          [key \in WriteKeys(pending[w]) |-> Stored(settings', key)],
                          [key \in WriteKeys(pending[w]) |-> Stored(pending[w].before, key)])
      ]_vars

\* C17: an admin request that meets a persistence error leaves no change of
\* its own in the database and still answers with a redirect: update_totals
\* and update_design leave the settings they started on, and the quiz
\* listing never answers with a server error.
C17_ErrorRolledBack ==
    [][/\ \A w \in Workers :
             (SettingsRequestEnds(w) /\ resp'.category = "error") =>
                 (resp'.status = 302 /\ settings' = pending[w].before)
       /\ (req'.op = "quizzes" /\ session # NoUser /\ pending' = pending) =>
             (resp'.status # 500 /\ (resp'.category = "error" => db' = db))
      ]_vars

\* worker w commits its update_class_total in this step
C18_CommitStep(w) == pending[w].op = "update_class_total" /\ pending'[w] = Idle

\* C18: when requests set the amount of the same class at the same time,
\* each of them succeeds, the amount stored after a commit is the value of
\* the request that committed (so the last commit wins), no row is lost, and
\* a later read of the totals shows the stored amounts.
C18_LastWriterWins ==
    [][/\ \A w \in Workers : C18_CommitStep(w) =>
             /\ resp'.category = "success"
             /\ \E c \in school_classes' : /\ c.id = pending[w].class_id
                                           /\ c.rice_bowl_amount = pending[w].amount
             /\ {c.id : c \in school_classes'} = {c.id : c \in school_classes}
       /\ (req'.op = "totals" /\ session # NoUser /\ pending' = pending /\ db' = db) =>
             (resp'.status = 200 /\ resp'.body.classes = school_classes
              /\ resp'.body.rice_bowl_total = SumAmounts(school_classes))
      ]_vars

\* C21: no reachable state holds two classes with the same name, whatever
\* the interleaving of add_class, update_class and edit_class requests that
\* passed their duplicate test before any of them committed.
C21_NamesUniqueUnderConcurrency ==
    \A c, d \in school_classes : c.name = d.name => c.id = d.id

\* C21 witness: a JSON rename that had passed its duplicate test was refused
\* at its commit, the name being held by a row committed in between; the
\* row it named keeps its own name.
C21_Witness ==
    /\ req.op = "edit_class" /\ resp.status = 500
    /\ \E c \in ClassByName(Strip(req.name)) : c.id # req.class_id
    /\ Cardinality(ClassByName(Strip(req.name))) = 1
    /\ \E c \in ClassById(req.class_id) : c.name # Strip(req.name)

====
